---------------------------- MODULE Spec2Model ----------------------------
(***************************************************************************)
(* Model of the USDC cross-chain transfer engine: the transfer store       *)
(* (initiateTransfer / recoverTransfer / reset) driving BridgeService      *)
(* (bridgeUSDC / recoverTransfer: approve -> burn -> attestation -> mint). *)
(*                                                                         *)
(* JavaScript runs one macrotask at a time.  An action of this model is    *)
(* one macrotask together with all the promise reactions (microtasks) it   *)
(* triggers: it starts where an awaited external operation settles or a    *)
(* timer fires and runs to the next await on an external operation.        *)
(*                                                                         *)
(* Text is modelled by what the code can see of it: a message is a record  *)
(* [id, has] where has is the set of the searched substrings (Markers)     *)
(* that occur in the text.  message.includes(m) is  m \in msg.has.         *)
(***************************************************************************)
EXTENDS Integers, Sequences, FiniteSets, TLC

\* ------------------------------------------------------------------------
\* Text markers: every substring some includes() of the source searches for
\* ------------------------------------------------------------------------
Markers ==
  { "block height exceeded", "BlockheightExceeded", "Signature has expired",
    "signature has expired", "Blockhash not found", "blockhash not found",
    "has expired",
    "Custom", "0", "already redeemed", "message already received",
    "timeout", "Timeout",
    "mint-already-completed", "mint-check-wallet", "mint-signature-expired",
    "disconnected port", "Attempting to use a disconnected port",
    "InsufficientFundsForRent", "insufficient", "InstructionError",
    "insufficient funds", "user rejected", "User denied", "nonce too low",
    "replacement transaction", "already known", "execution reverted",
    "Requested resource not available", "Unsupported account", "Ethereum" }

\* A thrown value.  isError: it is an instance of Error.  has: the markers of
\* its message (of String(value) when it is no Error).  logs: the markers of
\* the simulation logs it carries (Solana), {} when it carries none.
Err(id, isError, has, logs) ==
  [id |-> id, isError |-> isError, has |-> has, logs |-> logs]

\* new Error(<literal text>)
Lit(id, has) == Err(id, TRUE, has, {})

NoError == Err("none", FALSE, {}, {})

\* ------------------------------------------------------------------------
\* Errors the environment (wallets, chains, attestation service) can raise.
\* The comment gives the text; has/logs are the markers occurring in it.
\* ------------------------------------------------------------------------
\* "Signature 5Uf has expired: block height exceeded."
EExpired == Err("sol-expired", TRUE, {"block height exceeded", "has expired"}, {})
\* "Transaction simulation failed: Blockhash not found", with simulation logs
EBlockhash == Err("sol-blockhash", TRUE, {"Blockhash not found"}, {"0"})
\* 'Transaction failed: {"InstructionError":[3,{"Custom":0}]}'  (nonce account
\* already in use: the message was already received)
ECustom0 == Err("sol-custom-0", TRUE, {"Custom", "0", "InstructionError"}, {})
\* 'Transaction failed: {"InstructionError":[3,{"Custom":6016}]}'  (another
\* program error: the instruction reverted, nothing was minted or burned)
ECustomOther == Err("sol-custom-6016", TRUE, {"Custom", "0", "InstructionError"}, {})
\* "Transaction simulation failed: InsufficientFundsForRent"
EInsufficientSol == Err("sol-insufficient-rent", TRUE, {"InsufficientFundsForRent"}, {"0"})
\* "execution reverted: message already received"
ERedeemedEvm == Err("evm-already-received", TRUE,
                    {"execution reverted", "message already received"}, {})
\* "execution reverted: Invalid attestation length"
ERevertEvm == Err("evm-reverted", TRUE, {"execution reverted"}, {})
\* "insufficient funds for gas * price + value"
EInsufficientEvm == Err("evm-insufficient-funds", TRUE,
                        {"insufficient funds", "insufficient"}, {})
\* "User denied transaction signature."
ERejectedEvm == Err("evm-user-denied", TRUE, {"User denied"}, {})
\* a wallet rejecting with a plain object {code: 4001}: String(e) is
\* "[object Object]"
ERejectedObj == Err("wallet-reject-object", FALSE, {}, {})
\* "Request timeout: message already received, blockhash has expired"
\* (a relayer answer that matches three classes at once)
EMixed == Err("mixed-redeemed-timeout-expired", TRUE,
              {"timeout", "message already received", "has expired"}, {})
\* "The request has expired, please try again" (a wallet session on an EVM
\* chain that ran out while the transaction waited for the signature)
EExpiredEvm == Err("evm-request-expired", TRUE, {"has expired"}, {})
\* "Request timeout: the signature has expired"
ETimeoutExpired == Err("mixed-timeout-expired", TRUE,
                       {"timeout", "signature has expired", "has expired"}, {})
\* "Failed to fetch attestation: not found"
EAttNotFound == Err("attestation-not-found", TRUE, {}, {})
\* "Timeout waiting for attestation of 0x0f3c"
EAttTimeout == Err("attestation-timeout", TRUE, {"Timeout", "0"}, {})
\* "Unsupported account: Phantom does not support Ethereum here"
EWalletConflict == Err("wallet-unsupported-account", TRUE,
                       {"Unsupported account", "Ethereum"}, {})


\* ------------------------------------------------------------------------
\* Error classification and formatting  (services/bridge.ts, transfer store)
\* ------------------------------------------------------------------------
isSolanaTxExpiredError(error) ==
  \/ "block height exceeded" \in error.has
  \/ "BlockheightExceeded" \in error.has
  \/ "Signature has expired" \in error.has
  \/ "signature has expired" \in error.has
  \/ "Blockhash not found" \in error.has
  \/ "blockhash not found" \in error.has
  \/ "has expired" \in error.has

\* executeMint, Priority 2: errorMsg = String(error)
IsAlreadyRedeemedMsg(error) ==
  \/ ("Custom" \in error.has /\ "0" \in error.has)
  \/ "already redeemed" \in error.has
  \/ "message already received" \in error.has

\* executeMint, Priority 3
IsTimeoutMsg(error) == "timeout" \in error.has \/ "Timeout" \in error.has

\* The simulation logs appended to a message: `${message}\n\nSolana
\* simulation logs:\n${tail}`
extractSolanaSimulationLogs(error) == error.logs

formatSolanaMintError(error) ==
  IF "disconnected port" \in error.has
       \/ "Attempting to use a disconnected port" \in error.has
    THEN Lit("Phantom Wallet Connection Lost", {})
  ELSE IF "InsufficientFundsForRent" \in error.has
    \* "... at least 0.002 SOL ... Wallet: <name>"
    THEN Lit("Insufficient SOL for Transaction", {"0"})
  ELSE IF "Custom" \in error.has /\ "0" \in error.has
    \* "CCTP Mint Failed: ... (wait 10-20 mins after burn) 2. Message already
    \*  redeemed ... Original error: ${message}"
    THEN Lit("CCTP Mint Failed", {"0", "already redeemed"} \cup error.has)
  ELSE IF "InstructionError" \in error.has
    THEN Lit("Solana Transaction Failed", error.has)
  ELSE IF extractSolanaSimulationLogs(error) = {}
    THEN Lit(error.id, error.has)
  ELSE Lit("with simulation logs", error.has \cup extractSolanaSimulationLogs(error))

formatSolanaBurnError(error) ==
  IF "disconnected port" \in error.has
       \/ "Attempting to use a disconnected port" \in error.has
    THEN Lit("Phantom Wallet Connection Lost", {})
  ELSE IF "InsufficientFundsForRent" \in error.has \/ "insufficient" \in error.has
    \* "... at least 0.005 SOL ..."
    THEN Lit("Insufficient SOL for Burn Transaction", {"0"})
  ELSE IF "block height exceeded" \in error.has \/ "has expired" \in error.has
    THEN Lit("Transaction Signature Expired", {})
  ELSE formatSolanaMintError(error)

formatEvmMintError(error) ==
  IF "insufficient funds" \in error.has
    THEN Lit("Insufficient ETH/native token for gas fees", {})
  ELSE IF "user rejected" \in error.has \/ "User denied" \in error.has
    THEN Lit("Transaction was rejected by user", {})
  ELSE IF "nonce too low" \in error.has \/ "replacement transaction" \in error.has
    THEN Lit("Transaction nonce conflict", {})
  ELSE IF "already known" \in error.has \/ "already redeemed" \in error.has
            \/ "message already received" \in error.has
    THEN Lit("USDC has already been minted", {})
  ELSE IF "execution reverted" \in error.has
    \* "Smart contract execution reverted ... (wait 10-20 mins) ..."
    THEN Lit("Smart contract execution reverted", {"0", "execution reverted"})
  ELSE Lit(error.id, error.has)

\* transfer store: does the error text say that the mint already completed
IsMintCompletedBugOr(error) ==
  \/ ("Custom" \in error.has \/ "0" \in error.has)
  \/ "already redeemed" \in error.has
  \/ "mint-already-completed" \in error.has
  \/ "mint-check-wallet" \in error.has
  \/ "mint-signature-expired" \in error.has
  \/ "message already received" \in error.has

isMintAlreadyCompletedError(error) ==
  \/ ("Custom" \in error.has /\ "0" \in error.has)
  \/ "already redeemed" \in error.has
  \/ "mint-already-completed" \in error.has
  \/ "mint-check-wallet" \in error.has
  \/ "mint-signature-expired" \in error.has
  \/ "message already received" \in error.has

\* The literal errors the orchestrator itself raises
ErrRecipientRequired == Lit("Recipient address is required", {})
ErrBurnTimeout == Lit("Burn execution timeout after 30 seconds", {"timeout", "0"})
ErrMintTimeout(isSolana) ==
  IF isSolana THEN Lit("Mint execution timeout after 30 seconds", {"timeout", "0"})
              ELSE Lit("Mint execution timeout after 20 seconds", {"timeout", "0"})
ErrBadTxHash == Lit("Invalid transaction hash format", {"0"})
ErrNoRecipient == Lit("Cannot extract mint recipient from attestation", {})
ErrUnsupportedChain == Lit("Unsupported chain", {})
ErrSolanaNotConnected == Lit("Solana wallet not connected", {})
ErrEvmNotConnected == Lit("EVM wallet not connected", {})
ErrParseFormat == Lit("Failed to parse USDC amount: Invalid USDC amount format", {})
ErrParseDecimals == Lit("Failed to parse USDC amount: maximum 6 decimal places", {})

\* ------------------------------------------------------------------------
\* Strings.  A string the code inspects character by character is looked up
\* in Chars (its characters) and the result is mapped back with Str.
\* ------------------------------------------------------------------------
Digits == {"0", "1", "2", "3", "4", "5", "6", "7", "8", "9"}
HexDigits == Digits \cup {"a", "b", "c", "d", "e", "f", "A", "B", "C", "D", "E", "F"}
Whitespace == {" "}

Rep(c, n) == [i \in 1..n |-> c]

\* a burn transaction hash, lower case
TxLower == "0xaaaaaaaaaaaaaaaaaaaaaaaaaaaaaaaaaaaaaaaaaaaaaaaaaaaaaaaaaaaaaaaa"
\* the same hash as a block explorer shows it, upper case, pasted with blanks
TxUpper == "0xAAAAAAAAAAAAAAAAAAAAAAAAAAAAAAAAAAAAAAAAAAAAAAAAAAAAAAAAAAAAAAAA"
TxUpperSpaced == " 0xAAAAAAAAAAAAAAAAAAAAAAAAAAAAAAAAAAAAAAAAAAAAAAAAAAAAAAAAAAAAAAAA "
\* too short to be a transaction hash
TxShort == "0x1234"
\* a hash pasted with one hex digit too many
TxLong == "0xaaaaaaaaaaaaaaaaaaaaaaaaaaaaaaaaaaaaaaaaaaaaaaaaaaaaaaaaaaaaaaaab"
\* a Solana signature (base58), and the same pasted with blanks
SolSig == "5UfSig"
SolSigSpaced == " 5UfSig "

KnownStrings ==
  { TxLower, TxUpper, TxUpperSpaced, TxShort, TxLong, SolSig, SolSigSpaced,
    "1.5", "1.1234567", "abc", "" }

Chars(s) ==
  CASE s = TxLower       -> <<"0", "x">> \o Rep("a", 64)
    [] s = TxUpper       -> <<"0", "x">> \o Rep("A", 64)
    [] s = TxUpperSpaced -> <<" ", "0", "x">> \o Rep("A", 64) \o <<" ">>
    [] s = TxShort       -> <<"0", "x", "1", "2", "3", "4">>
    [] s = TxLong        -> <<"0", "x">> \o Rep("a", 64) \o <<"b">>
    [] s = SolSig        -> <<"5", "U", "f", "S", "i", "g">>
    [] s = SolSigSpaced  -> <<" ", "5", "U", "f", "S", "i", "g", " ">>
    [] s = "1.5"         -> <<"1", ".", "5">>
    [] s = "1.1234567"   -> <<"1", ".", "1", "2", "3", "4", "5", "6", "7">>
    [] s = "abc"         -> <<"a", "b", "c">>
    [] s = ""            -> <<>>

Str(cs) == CHOOSE s \in KnownStrings : Chars(s) = cs

\* String.prototype.trim on characters
RECURSIVE TrimLeft(_)
TrimLeft(cs) ==
  IF cs # <<>> /\ Head(cs) \in Whitespace THEN TrimLeft(Tail(cs)) ELSE cs
RECURSIVE TrimRight(_)
TrimRight(cs) ==
  IF cs # <<>> /\ cs[Len(cs)] \in Whitespace
    THEN TrimRight(SubSeq(cs, 1, Len(cs) - 1)) ELSE cs
TrimChars(cs) == TrimRight(TrimLeft(cs))

ToLowerChar(c) ==
  CASE c = "A" -> "a" [] c = "B" -> "b" [] c = "C" -> "c"
    [] c = "D" -> "d" [] c = "E" -> "e" [] c = "F" -> "f" [] OTHER -> c

\* ------------------------------------------------------------------------
\* utils/usdc.ts
\* ------------------------------------------------------------------------
USDC_DECIMALS == 6

AllIn(cs, S) == \A i \in 1..Len(cs) : cs[i] \in S

\* position of the first "." in cs, 0 when there is none
DotAt(cs) ==
  IF \E i \in 1..Len(cs) : cs[i] = "."
    THEN CHOOSE i \in 1..Len(cs) : cs[i] = "." /\ \A j \in 1..(i - 1) : cs[j] # "."
    ELSE 0

\* /^\d+(\.\d+)?$/
MatchesAmountFormat(cs) ==
  LET d == DotAt(cs) IN
  IF d = 0 THEN Len(cs) >= 1 /\ AllIn(cs, Digits)
  ELSE /\ d >= 2 /\ d < Len(cs)
       /\ AllIn(SubSeq(cs, 1, d - 1), Digits)
       /\ AllIn(SubSeq(cs, d + 1, Len(cs)), Digits)

DigitValue(c) == CHOOSE v \in 0..9 : ToString(v) = c

\* BigInt(<decimal digits>)
RECURSIVE BigIntOf(_)
BigIntOf(cs) ==
  IF cs = <<>> THEN 0
  ELSE 10 * BigIntOf(SubSeq(cs, 1, Len(cs) - 1)) + DigitValue(cs[Len(cs)])

\* parseUSDC without the check of the decimal places
parseUSDCAnyDecimals(amount) ==
  LET cleaned == TrimChars(amount)
      d == DotAt(cleaned)
      integerPart == IF d = 0 THEN cleaned ELSE SubSeq(cleaned, 1, d - 1)
      decimalPart == IF d = 0 THEN <<>> ELSE SubSeq(cleaned, d + 1, Len(cleaned))
      paddedDecimal == decimalPart \o Rep("0", USDC_DECIMALS - Len(decimalPart))
  IN IF ~MatchesAmountFormat(cleaned)
       THEN [ok |-> FALSE, error |-> ErrParseFormat]
     ELSE [ok |-> TRUE, value |-> BigIntOf(integerPart \o paddedDecimal)]

\* parseUSDC without the trim of the amount
parseUSDCNoTrim(amount) ==
  LET cleaned == amount
      d == DotAt(cleaned)
      integerPart == IF d = 0 THEN cleaned ELSE SubSeq(cleaned, 1, d - 1)
      decimalPart == IF d = 0 THEN <<>> ELSE SubSeq(cleaned, d + 1, Len(cleaned))
      paddedDecimal == decimalPart \o Rep("0", USDC_DECIMALS - Len(decimalPart))
  IN IF ~MatchesAmountFormat(cleaned)
       THEN [ok |-> FALSE, error |-> ErrParseFormat]
     ELSE IF Len(decimalPart) > USDC_DECIMALS
       THEN [ok |-> FALSE, error |-> ErrParseDecimals]
     ELSE [ok |-> TRUE, value |-> BigIntOf(integerPart \o paddedDecimal)]

\* parseUSDC of the characters amount:
\* [ok |-> TRUE, value |-> base units] or [ok |-> FALSE, error |-> e]
parseUSDC(amount) ==
  LET cleaned == TrimChars(amount)
      d == DotAt(cleaned)
      integerPart == IF d = 0 THEN cleaned ELSE SubSeq(cleaned, 1, d - 1)
      decimalPart == IF d = 0 THEN <<>> ELSE SubSeq(cleaned, d + 1, Len(cleaned))
      paddedDecimal == decimalPart \o Rep("0", USDC_DECIMALS - Len(decimalPart))
  IN IF ~MatchesAmountFormat(cleaned)
       THEN [ok |-> FALSE, error |-> ErrParseFormat]
     ELSE IF Len(decimalPart) > USDC_DECIMALS
       THEN [ok |-> FALSE, error |-> ErrParseDecimals]
     ELSE [ok |-> TRUE, value |-> BigIntOf(integerPart \o paddedDecimal)]

\* parseUSDC of each string, computed once
ParsedUSDC == [s \in KnownStrings |-> parseUSDC(Chars(s))]

toUsdcBaseUnits(amount) == ParsedUSDC[amount]

\* BigInt.prototype.toString of a value that is not negative
RECURSIVE BigIntToString(_)
BigIntToString(v) ==
  IF v < 10 THEN << ToString(v) >>
  ELSE BigIntToString(v \div 10) \o << ToString(v % 10) >>

\* String.prototype.padStart
padStart(cs, targetLength, c) ==
  IF Len(cs) >= targetLength THEN cs ELSE Rep(c, targetLength - Len(cs)) \o cs

\* cs.replace(/0+$/, '')
RECURSIVE TrimTrailingZeros(_)
TrimTrailingZeros(cs) ==
  IF cs # <<>> /\ cs[Len(cs)] = "0"
    THEN TrimTrailingZeros(SubSeq(cs, 1, Len(cs) - 1))
    ELSE cs

\* cs.slice(0, count)
SliceHead(cs, count) ==
  IF Len(cs) <= count THEN cs ELSE SubSeq(cs, 1, count)

FORMAT_MAX_DECIMALS == 6
DISPLAY_MAX_DECIMALS == 2

\* formatUSDC that does not pad the digits to seven places
formatUSDCNoPad(rawAmount, maxDecimals) ==
  LET amountStr == BigIntToString(rawAmount)
      cut == IF Len(amountStr) > USDC_DECIMALS
               THEN Len(amountStr) - USDC_DECIMALS ELSE 0
      head == SubSeq(amountStr, 1, cut)
      integerPart == IF head = <<>> THEN << "0" >> ELSE head
      decimalPart == SubSeq(amountStr, cut + 1, Len(amountStr))
      trimmedDecimal == TrimTrailingZeros(decimalPart)
      limitedDecimal == SliceHead(trimmedDecimal, maxDecimals)
  IN IF limitedDecimal # <<>>
       THEN integerPart \o << "." >> \o limitedDecimal
       ELSE integerPart

\* formatUSDC of a raw amount that is not negative: the characters returned
formatUSDC(rawAmount, maxDecimals) ==
  LET amountStr == padStart(BigIntToString(rawAmount), USDC_DECIMALS + 1, "0")
      cut == Len(amountStr) - USDC_DECIMALS
      head == SubSeq(amountStr, 1, cut)
      integerPart == IF head = <<>> THEN << "0" >> ELSE head
      decimalPart == SubSeq(amountStr, cut + 1, Len(amountStr))
      trimmedDecimal == TrimTrailingZeros(decimalPart)
      limitedDecimal == SliceHead(trimmedDecimal, maxDecimals)
  IN IF limitedDecimal # <<>>
       THEN integerPart \o << "." >> \o limitedDecimal
       ELSE integerPart

\* parseFloat(cleaned) > 0, for cleaned of the amount format with at most
\* USDC_DECIMALS decimal places: the double nearest to a decimal numeral is 0
\* only when every digit is 0 (a value of 10^-6 or more never rounds to 0)
parseFloatIsPositive(cleaned) ==
  \E i \in 1..Len(cleaned) : cleaned[i] \in Digits \ {"0"}

\* isValidUSDCAmount that accepts the value zero
isValidUSDCAmountOrZero(amount) ==
  LET cleaned == TrimChars(amount)
      d == DotAt(cleaned)
      decimalPart == IF d = 0 THEN <<>> ELSE SubSeq(cleaned, d + 1, Len(cleaned))
  IN IF amount = <<>> \/ cleaned = <<>> THEN FALSE
     ELSE IF ~MatchesAmountFormat(cleaned) THEN FALSE
     ELSE IF Len(decimalPart) > USDC_DECIMALS THEN FALSE
     ELSE TRUE

\* isValidUSDCAmount of the characters amount; every exception thrown inside
\* is caught and answered with false
isValidUSDCAmount(amount) ==
  LET cleaned == TrimChars(amount)
      d == DotAt(cleaned)
      decimalPart == IF d = 0 THEN <<>> ELSE SubSeq(cleaned, d + 1, Len(cleaned))
  IN IF amount = <<>> \/ cleaned = <<>> THEN FALSE
     ELSE IF ~MatchesAmountFormat(cleaned) THEN FALSE
     ELSE IF Len(decimalPart) > USDC_DECIMALS THEN FALSE
     ELSE IF ~parseFloatIsPositive(cleaned) THEN FALSE
     ELSE TRUE

\* ------------------------------------------------------------------------
\* normalizeEvmTxHash
\* ------------------------------------------------------------------------
TX_HEX_LEN == 64

\* /0x[a-fA-F0-9]{64}/ matches cs at position i
HashAt(cs, i) ==
  /\ i + 1 + TX_HEX_LEN <= Len(cs)
  /\ cs[i] = "0" /\ cs[i + 1] = "x"
  /\ \A k \in (i + 2)..(i + 1 + TX_HEX_LEN) : cs[k] \in HexDigits

NormalizeChars(input) ==
  LET trimmed == TrimChars(Chars(input))
      found == \E i \in 1..Len(trimmed) : HashAt(trimmed, i)
      first == CHOOSE i \in 1..Len(trimmed) :
                 HashAt(trimmed, i) /\ \A j \in 1..(i - 1) : ~HashAt(trimmed, j)
      hash == IF found THEN SubSeq(trimmed, first, first + 1 + TX_HEX_LEN) ELSE trimmed
      \* /^0x[a-fA-F0-9]{64}$/
      wellFormed == Len(hash) = TX_HEX_LEN + 2 /\ HashAt(hash, 1)
  IN IF ~wellFormed
       THEN [ok |-> FALSE, error |-> ErrBadTxHash]
       ELSE [ok |-> TRUE,
             value |-> Str(<<"0", "x">> \o
                           [k \in 1..TX_HEX_LEN |-> ToLowerChar(hash[k + 2])])]

\* the normalization of each string, computed once
NormalizedEvmTxHash == [s \in KnownStrings |-> NormalizeChars(s)]
normalizeEvmTxHash(input) == NormalizedEvmTxHash[input]

Trimmed == [s \in KnownStrings |-> Str(TrimChars(Chars(s)))]
trim(s) == Trimmed[s]

\* ------------------------------------------------------------------------
\* Chain mapping  (services/bridge.ts)
\* ------------------------------------------------------------------------
\* the chain ids a call is made with: an EVM chain, a Solana chain and an id
\* the orchestrator has no mapping for
ChainIds == {"base-sepolia", "solana-devnet", "unknown-chain"}

mapAppChainIdToBlockchain(appChainId) ==
  CASE appChainId = "ethereum-mainnet" -> "Ethereum"
    [] appChainId = "polygon-mainnet"  -> "Polygon"
    [] appChainId = "arbitrum-mainnet" -> "Arbitrum"
    [] appChainId = "base-mainnet"     -> "Base"
    [] appChainId = "solana-mainnet"   -> "Solana"
    [] appChainId = "ethereum-sepolia" -> "Ethereum_Sepolia"
    [] appChainId = "polygon-amoy"     -> "Polygon_Amoy_Testnet"
    [] appChainId = "arbitrum-sepolia" -> "Arbitrum_Sepolia"
    [] appChainId = "base-sepolia"     -> "Base_Sepolia"
    [] appChainId = "solana-devnet"    -> "Solana_Devnet"
    [] OTHER                           -> "undefined"

\* getChainDefinition: the chain definition, "undefined" standing for the
\* thrown "Unsupported chain"
getChainDefinition(chainId) == mapAppChainIdToBlockchain(chainId)
IsSupported(chainId) == getChainDefinition(chainId) # "undefined"

\* the ids of SUPPORTED_CHAINS and TESTNET_CHAINS of the chain registry
RegistryChainIds ==
  { "ethereum-mainnet", "polygon-mainnet", "arbitrum-mainnet", "base-mainnet",
    "solana-mainnet", "ethereum-sepolia", "polygon-amoy", "solana-devnet" }

\* getChainById of the registry: the id of the entry found, or undefined
getChainById(chainId) ==
  IF chainId \in RegistryChainIds THEN chainId ELSE "undefined"

\* chainId.toLowerCase().includes('solana')
isSolanaChain(chainId) == chainId \in {"solana-mainnet", "solana-devnet"}

\* executeApprove: chainDef.name?.toLowerCase().includes('solana')
\* (the definitions named "Solana" and "Solana Devnet")
NameIncludesSolana(chainDef) == chainDef \in {"Solana", "Solana_Devnet"}

\* getChainIdFromContext: reverse lookup of the chain definition
getChainIdFromContext(chainDef) ==
  CHOOSE id \in { "ethereum-mainnet", "polygon-mainnet", "arbitrum-mainnet",
                  "base-mainnet", "solana-mainnet", "ethereum-sepolia",
                  "polygon-amoy", "arbitrum-sepolia", "base-sepolia",
                  "solana-devnet" } : mapAppChainIdToBlockchain(id) = chainDef

\* the address of the connected wallet of each category
EvmSigner == "evm-signer"
SolanaSigner == "sol-signer"
WalletAddress(isSolana) == IF isSolana THEN SolanaSigner ELSE EvmSigner

\* ------------------------------------------------------------------------
\* Optional values, truthiness
\* ------------------------------------------------------------------------
UNDEF == "undefined"
Truthy(x) == x # UNDEF /\ x # ""
\* a || b on strings
Or(a, b) == IF Truthy(a) THEN a ELSE b

createDestinationContextSwapped(chain, signerAddress, recipientAddress) ==
  [chain |-> chain, address |-> recipientAddress, recipientAddress |-> signerAddress]

\* the recipient also signs
createDestinationContextRecipientSigns(chain, signerAddress, recipientAddress) ==
  [chain |-> chain, address |-> recipientAddress, recipientAddress |-> recipientAddress]

createDestinationContext(chain, signerAddress, recipientAddress) ==
  [chain |-> chain, address |-> signerAddress, recipientAddress |-> recipientAddress]

\* a payload without mintRecipient yields the connected wallet's address
extractRecipientOrFallback(attestation) ==
  Or(attestation.mintRecipient, "recipient-1")

extractRecipientFromAttestation(attestation) == attestation.mintRecipient

createSuccessResult(amount, sourceAddress, recipientAddress, burnTxHash, mintTxHash) ==
  [ state |-> "success",
    amount |-> amount,
    source |-> sourceAddress,
    destination |-> recipientAddress,
    steps |-> << [name |-> "approve", state |-> "noop", txHash |-> UNDEF],
                 [name |-> "burn", state |-> "success", txHash |-> burnTxHash],
                 [name |-> "fetchAttestation", state |-> "success", txHash |-> UNDEF],
                 [name |-> "mint", state |-> "success", txHash |-> mintTxHash] >> ]

\* ------------------------------------------------------------------------
\* Transfer store  (state/transfer.store)
\* ------------------------------------------------------------------------
NoSession == [none |-> TRUE]

NewSession(p, status, sourceTxHash) ==
  [ transactionId |-> "session-of-call",
    sourceChainId |-> p.sourceChainId, destChainId |-> p.destChainId,
    amount |-> p.amount, status |-> status, sourceTxHash |-> sourceTxHash,
    destTxHash |-> UNDEF, errorMessage |-> UNDEF ]

Ev(step, state, txHash) == [step |-> step, state |-> state, txHash |-> txHash]

\* stepName.includes(...) on the four step names the orchestrator emits
IsBurnStep(step) == step = "burn"
IsAttestationStep(step) == step = "fetchAttestation"
IsMintStep(step) == step = "mint"

\* initiateTransfer's onProgress: the session after the event
TransferOnProgress(cur, event) ==
  LET s1 == IF event.state = "pending" /\ IsBurnStep(event.step) THEN "BURNING"
            ELSE cur.status
      s2 == IF event.state = "pending" /\ IsAttestationStep(event.step) THEN "ATTESTING"
            ELSE s1
      s3 == IF event.state = "pending" /\ IsMintStep(event.step) THEN "MINTING" ELSE s2
      newStatus ==
        IF event.state # "success" THEN s3
        ELSE IF IsBurnStep(event.step) THEN "BURNED"
        ELSE IF IsAttestationStep(event.step) THEN "ATTESTED"
        ELSE IF IsMintStep(event.step) THEN "COMPLETED"
        ELSE s3
      sourceTxHash == IF event.state = "success" /\ IsBurnStep(event.step)
                        THEN event.txHash ELSE cur.sourceTxHash
      destTxHash == IF event.state = "success" /\ IsMintStep(event.step)
                      THEN event.txHash ELSE cur.destTxHash
  IN [cur EXCEPT !.status = newStatus,
                 !.sourceTxHash = Or(sourceTxHash, cur.sourceTxHash),
                 !.destTxHash = Or(destTxHash, cur.destTxHash)]

\* recoverTransfer's onProgress
RecoverOnProgress(cur, event) ==
  LET s1 == IF event.state = "pending" /\ IsAttestationStep(event.step) THEN "ATTESTING"
            ELSE cur.status
      s2 == IF event.state = "pending" /\ IsMintStep(event.step) THEN "MINTING" ELSE s1
      s3 == IF event.state = "success" /\ IsAttestationStep(event.step) THEN "ATTESTED"
            ELSE s2
      newStatus == IF event.state = "success" /\ IsMintStep(event.step) THEN "COMPLETED"
                   ELSE s3
      destTxHash == IF event.state = "success" /\ IsMintStep(event.step)
                      THEN event.txHash ELSE cur.destTxHash
  IN [cur EXCEPT !.status = newStatus,
                 !.destTxHash = Or(destTxHash, cur.destTxHash)]

OnProgress(kind, cur, event) ==
  IF kind = "transfer" THEN TransferOnProgress(cur, event)
                       ELSE RecoverOnProgress(cur, event)

\* set() calls that start from a fresh session when there is none
RECURSIVE NotifyRecreates(_, _, _)
NotifyRecreates(kind, st, evs) ==
  IF evs = <<>> THEN st
  ELSE LET cur == IF st.cur = NoSession
                    THEN NewSession([sourceChainId |-> UNDEF, destChainId |-> UNDEF,
                                     amount |-> UNDEF], "PENDING", UNDEF)
                  ELSE st.cur
           next == OnProgress(kind, cur, Head(evs))
       IN NotifyRecreates(kind, [cur |-> next, log |-> Append(st.log, next.status)],
                          Tail(evs))

\* The store after the orchestrator has emitted the events evs, one set()
\* per event: st = [cur |-> session, log |-> the statuses set so far]
RECURSIVE Notify(_, _, _)
Notify(kind, st, evs) ==
  IF evs = <<>> THEN st
  ELSE IF st.cur = NoSession THEN Notify(kind, st, Tail(evs))
  ELSE LET next == OnProgress(kind, st.cur, Head(evs))
       IN Notify(kind, [cur |-> next, log |-> Append(st.log, next.status)], Tail(evs))

StepTxHash(result, name) ==
  LET hits == { i \in 1..Len(result.steps) : result.steps[i].name = name }
  IN IF hits = {} THEN UNDEF ELSE result.steps[CHOOSE i \in hits : TRUE].txHash

\* initiateTransfer's catch: the message stored and re-thrown
TransferErrorMsg(error) ==
  LET m0 == IF error.isError THEN Lit(error.id, error.has) ELSE Lit("Unexpected error", {})
      m1 == IF "Requested resource not available" \in m0.has
              THEN Lit("Your wallet is busy", {}) ELSE m0
  IN IF "Unsupported account" \in m1.has \/ "Ethereum" \in m1.has
       THEN Lit("Wallet conflict detected", {"Ethereum"}) ELSE m1

\* recoverTransfer's catch: the message stored
RecoverErrorMsg(error) ==
  IF error.isError THEN Lit(error.id, error.has) ELSE Lit("Unexpected error", {})

\* The store action after the orchestrator call has settled with
\* out = [threw, error, result]: the session, and what the action throws.
\* the store action's end, with the message also stored when the error counts
\* as an already completed mint
SettleStoreKeepsMessage(kind, cur, out) ==
  IF ~out.threw
    THEN [ cur |-> IF cur = NoSession THEN NoSession
                   ELSE IF kind = "transfer"
                     THEN [cur EXCEPT
                             !.status = "COMPLETED",
                             !.sourceTxHash = Or(StepTxHash(out.result, "burn"), cur.sourceTxHash),
                             !.destTxHash = Or(StepTxHash(out.result, "mint"), cur.destTxHash)]
                     ELSE [cur EXCEPT
                             !.status = "COMPLETED",
                             !.destTxHash = Or(StepTxHash(out.result, "mint"), cur.destTxHash)],
           threw |-> FALSE, error |-> NoError ]
  ELSE IF isMintAlreadyCompletedError(out.error)
    THEN [ cur |-> IF cur = NoSession THEN NoSession
                   ELSE [cur EXCEPT !.status = "COMPLETED",
                                    !.destTxHash = "mint-already-completed",
                                    !.errorMessage = out.error.id],
           threw |-> FALSE, error |-> NoError ]
  ELSE IF kind = "transfer"
    THEN [ cur |-> IF cur = NoSession THEN NoSession
                   ELSE [cur EXCEPT !.status = "FAILED",
                                    !.errorMessage = TransferErrorMsg(out.error).id],
           threw |-> TRUE, error |-> TransferErrorMsg(out.error) ]
    ELSE [ cur |-> IF cur = NoSession THEN NoSession
                   ELSE [cur EXCEPT !.status = "FAILED",
                                    !.errorMessage = RecoverErrorMsg(out.error).id],
           threw |-> FALSE, error |-> NoError ]

SettleStore(kind, cur, out) ==
  IF ~out.threw
    THEN [ cur |-> IF cur = NoSession THEN NoSession
                   ELSE IF kind = "transfer"
                     THEN [cur EXCEPT
                             !.status = "COMPLETED",
                             !.sourceTxHash = Or(StepTxHash(out.result, "burn"), cur.sourceTxHash),
                             !.destTxHash = Or(StepTxHash(out.result, "mint"), cur.destTxHash)]
                     ELSE [cur EXCEPT
                             !.status = "COMPLETED",
                             !.destTxHash = Or(StepTxHash(out.result, "mint"), cur.destTxHash)],
           threw |-> FALSE, error |-> NoError ]
  ELSE IF isMintAlreadyCompletedError(out.error)
    THEN [ cur |-> IF cur = NoSession THEN NoSession
                   ELSE [cur EXCEPT !.status = "COMPLETED",
                                    !.destTxHash = "mint-already-completed"],
           threw |-> FALSE, error |-> NoError ]
  ELSE IF kind = "transfer"
    THEN [ cur |-> IF cur = NoSession THEN NoSession
                   ELSE [cur EXCEPT !.status = "FAILED",
                                    !.errorMessage = TransferErrorMsg(out.error).id],
           threw |-> TRUE, error |-> TransferErrorMsg(out.error) ]
    ELSE [ cur |-> IF cur = NoSession THEN NoSession
                   ELSE [cur EXCEPT !.status = "FAILED",
                                    !.errorMessage = RecoverErrorMsg(out.error).id],
           threw |-> FALSE, error |-> NoError ]

\* ------------------------------------------------------------------------
\* Retry and catch logic of the burn and mint steps  (services/bridge.ts)
\* ------------------------------------------------------------------------
BURN_MAX_ATTEMPTS == 3
MINT_MAX_ATTEMPTS == 1

\* executeWithRetry's catch: what the loop does with a failed attempt
RetryAlways(error, attempt, maxAttempts, lastResult) ==
  IF attempt < maxAttempts THEN "retry" ELSE "throw"

RetryNever(error, attempt, maxAttempts, lastResult) ==
  IF lastResult # UNDEF /\ isSolanaTxExpiredError(error) THEN "return" ELSE "throw"

RetryOnceMore(error, attempt, maxAttempts, lastResult) ==
  IF isSolanaTxExpiredError(error) /\ attempt <= maxAttempts THEN "retry"
  ELSE IF lastResult # UNDEF /\ isSolanaTxExpiredError(error) THEN "return"
  ELSE "throw"

executeWithRetryCatch(error, attempt, maxAttempts, lastResult) ==
  IF isSolanaTxExpiredError(error) /\ attempt < maxAttempts THEN "retry"
  ELSE IF lastResult # UNDEF /\ isSolanaTxExpiredError(error) THEN "return"
  ELSE "throw"

\* executeBurn's catch: [ok, event, txHash, thrown]
executeBurnCatchNoThrow(lastTxHash, error) ==
  [ ok |-> TRUE, event |-> Ev("burn", "error", UNDEF), txHash |-> lastTxHash,
    thrown |-> NoError ]

executeBurnCatch(lastTxHash, error) ==
  IF Truthy(lastTxHash) /\ isSolanaTxExpiredError(error)
    THEN [ ok |-> TRUE, event |-> Ev("burn", "success", lastTxHash),
           txHash |-> lastTxHash, thrown |-> NoError ]
    ELSE [ ok |-> FALSE, event |-> Ev("burn", "error", UNDEF), txHash |-> UNDEF,
           thrown |-> IF error.isError THEN formatSolanaBurnError(error) ELSE error ]

\* executeMint's catch: [ok, event, txHash, thrown]
MintOk(txHash) ==
  [ ok |-> TRUE, event |-> Ev("mint", "success", txHash), txHash |-> txHash,
    thrown |-> NoError ]

MintFailed(error, isSolana) ==
  [ ok |-> FALSE, event |-> Ev("mint", "error", UNDEF), txHash |-> UNDEF,
    thrown |-> IF ~error.isError THEN error
               ELSE IF isSolana THEN formatSolanaMintError(error)
               ELSE formatEvmMintError(error) ]

executeMintCatchTimeoutFirst(lastTxHash, error, isSolana) ==
  IF Truthy(lastTxHash) THEN MintOk(lastTxHash)
  ELSE IF IsTimeoutMsg(error) THEN MintOk("mint-check-wallet")
  ELSE IF IsAlreadyRedeemedMsg(error) THEN MintOk("mint-already-completed")
  ELSE IF isSolana /\ isSolanaTxExpiredError(error) THEN MintOk("mint-signature-expired")
  ELSE MintFailed(error, isSolana)

executeMintCatchNoRedeemed(lastTxHash, error, isSolana) ==
  IF Truthy(lastTxHash) THEN MintOk(lastTxHash)
  ELSE IF IsTimeoutMsg(error) THEN MintOk("mint-check-wallet")
  ELSE IF isSolana /\ isSolanaTxExpiredError(error) THEN MintOk("mint-signature-expired")
  ELSE MintFailed(error, isSolana)

\* executeMint's catch without the branch of the timeout
executeMintCatchNoTimeout(lastTxHash, error, isSolana) ==
  IF Truthy(lastTxHash) THEN MintOk(lastTxHash)
  ELSE IF IsAlreadyRedeemedMsg(error) THEN MintOk("mint-already-completed")
  ELSE IF isSolana /\ isSolanaTxExpiredError(error) THEN MintOk("mint-signature-expired")
  ELSE MintFailed(error, isSolana)

\* executeMint's catch without the branch of the expired signature
executeMintCatchNoExpiry(lastTxHash, error, isSolana) ==
  IF Truthy(lastTxHash) THEN MintOk(lastTxHash)
  ELSE IF IsAlreadyRedeemedMsg(error) THEN MintOk("mint-already-completed")
  ELSE IF IsTimeoutMsg(error) THEN MintOk("mint-check-wallet")
  ELSE MintFailed(error, isSolana)

executeMintCatch(lastTxHash, error, isSolana) ==
  IF Truthy(lastTxHash) THEN MintOk(lastTxHash)
  ELSE IF IsAlreadyRedeemedMsg(error) THEN MintOk("mint-already-completed")
  ELSE IF IsTimeoutMsg(error) THEN MintOk("mint-check-wallet")
  ELSE IF isSolana /\ isSolanaTxExpiredError(error) THEN MintOk("mint-signature-expired")
  ELSE MintFailed(error, isSolana)

\* ------------------------------------------------------------------------
\* The environment: what wallets, chains and the attestation service answer
\* ------------------------------------------------------------------------
\* errors of building or executing a transaction on a chain of a category
ChainErrors(isSolana) ==
  IF isSolana
    THEN {EExpired, EBlockhash, ECustom0, ECustomOther, EInsufficientSol, ERejectedObj}
    ELSE {ETimeoutExpired, ERevertEvm, EInsufficientEvm, ERejectedEvm, ERejectedObj}
\* building a transaction fails for lack of funds or with a stale blockhash
BuildErrors(isSolana) ==
  IF isSolana THEN {EExpired, EInsufficientSol} ELSE {ETimeoutExpired, EInsufficientEvm}
\* a mint can also find the message already received
MintErrors(isSolana) ==
  ChainErrors(isSolana) \cup {EMixed}
    \cup (IF isSolana THEN {} ELSE {ERedeemedEvm, EExpiredEvm})
\* the attestation service has no attestation (yet) for the transaction
AttestationErrors == {EAttNotFound, EAttTimeout}
\* getAddress of a connected wallet
WalletErrors == {EWalletConflict, ERejectedObj}

\* the hash the chain gives the transaction of the k-th submission
BurnHash(k) == CASE k = 1 -> "burn-tx-1" [] k = 2 -> "burn-tx-2" [] OTHER -> "burn-tx-3"
MintHash == "mint-tx-1"

\* the recipient a burn on-chain names: the attestation's mintRecipient
\* ("" when the payload does not decode to one)
BurnRecipients == {"", "recipient-1"}

\* ------------------------------------------------------------------------
\* Inputs of a call
\* ------------------------------------------------------------------------
Amounts == {"1.5", "1.1234567", "abc"}
Recipients == {"", "recipient-1"}
TxInputs == {TxLower, TxUpperSpaced, TxShort, TxLong, SolSigSpaced}

TransferParams ==
  [ sourceChainId : ChainIds, destChainId : ChainIds, amount : Amounts,
    recipientAddress : Recipients, sourceTxHash : {UNDEF},
    evmProvider : BOOLEAN, solanaProvider : BOOLEAN ]

RecoverParams ==
  [ sourceChainId : ChainIds, destChainId : ChainIds, amount : Amounts,
    recipientAddress : {UNDEF}, sourceTxHash : TxInputs,
    evmProvider : BOOLEAN, solanaProvider : BOOLEAN ]

\* ------------------------------------------------------------------------
\* State
\* ------------------------------------------------------------------------
VARIABLES
  pc,            \* where the call in flight is suspended ("idle": none yet)
  call,          \* [kind, p]: the store action in flight and its parameters
  current,       \* the store's session (NoSession: null)
  isSubmitting,  \* the store's flag
  statusLog,     \* the statuses the session of this call was set to, in order
  events,        \* the progress events the orchestrator emitted in this call
  b,             \* the orchestrator call's local variables
  n,             \* how often each provider operation was invoked in this call
                 \* (approveFailed: how often the approval threw;
                 \* burnLanded: the burn attempts whose transaction took
                 \* effect on the source chain)
  burnLog,       \* how each burn attempt of this call ended
  mintLog,       \* how each mint attempt of this call ended
  pending,       \* the result or error held while the finally block drains
  outcome,       \* how the last call ended
  util,          \* the last call of a utility function: [op, input, out]
  other          \* a second store action overlapping the call in flight:
                 \* [phase, session], session being the session it created
                 \* as its own updates alone would have left it

\* the variables of the store and the orchestrator
callVars == << pc, call, current, isSubmitting, statusLog, events, b, n,
               burnLog, mintLog, pending, outcome, other >>

vars == << pc, call, current, isSubmitting, statusLog, events, b, n,
           burnLog, mintLog, pending, outcome, util, other >>

NoCall == [op |-> "none", input |-> <<>>, out |-> <<>>]

NoOther == [phase |-> "none", session |-> NoSession]

NoCtx == [none |-> TRUE]
NoResult == [none |-> TRUE]
NoAttestation == [none |-> TRUE]

Frame0 ==
  [ amountBaseUnits |-> 0, txHash |-> UNDEF, sourceChainDef |-> "undefined",
    destChainDef |-> "undefined", sourceAddress |-> UNDEF, destCtx |-> NoCtx,
    recipientAddress |-> UNDEF, attestation |-> NoAttestation,
    attempt |-> 0, lastTxHash |-> UNDEF, lastError |-> NoError, isSolana |-> FALSE ]

Counts0 ==
  [ approveBuild |-> 0, approveExec |-> 0, approveFailed |-> 0,
    burnBuild |-> 0, burnExec |-> 0, burnLanded |-> {},
    fetchAttestation |-> 0, mintBuild |-> 0, mintExec |-> 0 ]

Pending0 == [threw |-> FALSE, error |-> NoError, result |-> NoResult]

Outcome0 ==
  [ orch |-> "none", error |-> NoError, result |-> NoResult,
    storeThrew |-> FALSE, storeError |-> NoError, drained |-> FALSE ]

NoParams ==
  [ sourceChainId |-> UNDEF, destChainId |-> UNDEF, amount |-> UNDEF,
    recipientAddress |-> UNDEF, sourceTxHash |-> UNDEF,
    evmProvider |-> FALSE, solanaProvider |-> FALSE ]

Init ==
  /\ pc = "idle"
  /\ call = [kind |-> "none", p |-> NoParams]
  /\ current = NoSession
  /\ isSubmitting = FALSE
  /\ statusLog = <<>>
  /\ events = <<>>
  /\ b = Frame0
  /\ n = Counts0
  /\ burnLog = <<>>
  /\ mintLog = <<>>
  /\ pending = Pending0
  /\ outcome = Outcome0
  /\ util = NoCall
  /\ other = NoOther

Threw(error) == [threw |-> TRUE, error |-> error, result |-> NoResult]
Returned(result) == [threw |-> FALSE, error |-> NoError, result |-> result]

\* the orchestrator emits evs: onProgress runs synchronously for each
Emit(evs) ==
  LET st == Notify(call.kind, [cur |-> current, log |-> statusLog], evs)
  IN /\ current' = st.cur
     /\ statusLog' = st.log
     /\ events' = events \o evs

\* the orchestrator call settles with out and the store action runs to its end
Settle(kind, cur, log, out, drained) ==
  LET r == SettleStore(kind, cur, out)
  IN /\ current' = r.cur
     /\ statusLog' = IF r.cur = NoSession THEN log ELSE Append(log, r.cur.status)
     /\ isSubmitting' = FALSE
     /\ outcome' = [ orch |-> IF out.threw THEN "threw" ELSE "returned",
                     error |-> out.error, result |-> out.result,
                     storeThrew |-> r.threw, storeError |-> r.error,
                     drained |-> drained ]
     /\ pc' = "done"

\* an error thrown inside the try block: the finally block drains first
Throw(error) ==
  /\ pc' = "drain"
  /\ pending' = Threw(error)

NoCallInFlight == pc = "idle"

\* ------------------------------------------------------------------------
\* Store actions
\* ------------------------------------------------------------------------
\* initiateTransfer up to the first await on the environment
InitiateTransfer(p) ==
  /\ UNCHANGED << util, other >>
  /\ NoCallInFlight
  /\ call' = [kind |-> "transfer", p |-> p]
  /\ events' = <<>>
  /\ n' = Counts0
  /\ burnLog' = <<>>
  /\ mintLog' = <<>>
  /\ pending' = Pending0
  /\ LET session == NewSession(p, "PENDING", UNDEF)
         amount == toUsdcBaseUnits(p.amount)
     IN IF ~Truthy(p.recipientAddress)
          THEN /\ Settle("transfer", session, <<"PENDING">>, Threw(ErrRecipientRequired), FALSE)
               /\ b' = Frame0
        ELSE IF ~amount.ok
          THEN /\ Settle("transfer", session, <<"PENDING">>, Threw(amount.error), FALSE)
               /\ b' = Frame0
        ELSE /\ current' = session
             /\ statusLog' = <<"PENDING">>
             /\ isSubmitting' = TRUE
             /\ outcome' = Outcome0
             /\ b' = [Frame0 EXCEPT !.amountBaseUnits = amount.value,
                                    !.recipientAddress = p.recipientAddress]
             /\ pc' = "createAdapters"

\* recoverTransfer up to the first await on the environment
RecoverTransfer(p) ==
  /\ UNCHANGED << util, other >>
  /\ NoCallInFlight
  /\ call' = [kind |-> "recover", p |-> p]
  /\ events' = <<>>
  /\ n' = Counts0
  /\ burnLog' = <<>>
  /\ mintLog' = <<>>
  /\ pending' = Pending0
  /\ LET session == NewSession(p, "BURNING", p.sourceTxHash)
         normalized == IF isSolanaChain(p.sourceChainId)
                         THEN [ok |-> TRUE, value |-> trim(p.sourceTxHash)]
                         ELSE normalizeEvmTxHash(p.sourceTxHash)
         amount == toUsdcBaseUnits(p.amount)
         early == IF ~IsSupported(p.sourceChainId) THEN Threw(ErrUnsupportedChain)
                  ELSE IF ~normalized.ok THEN Threw(normalized.error)
                  ELSE IF ~amount.ok THEN Threw(amount.error)
                  ELSE Pending0
     IN IF early.threw
          THEN /\ Settle("recover", session, <<"BURNING">>, early, FALSE)
               /\ b' = Frame0
          ELSE /\ current' = session
               /\ statusLog' = <<"BURNING">>
               /\ isSubmitting' = TRUE
               /\ outcome' = Outcome0
               /\ b' = [Frame0 EXCEPT
                          !.amountBaseUnits = amount.value,
                          !.txHash = normalized.value,
                          !.sourceChainDef = getChainDefinition(p.sourceChainId)]
               /\ pc' = "createAdapters"

\* reset(), a user event: it runs between two macrotasks
Reset ==
  /\ UNCHANGED << util, other >>
  /\ current # NoSession
  /\ current' = NoSession
  /\ UNCHANGED << pc, call, isSubmitting, statusLog, events, b, n,
                  burnLog, mintLog, pending, outcome >>

\* ------------------------------------------------------------------------
\* Orchestrator: adapters and addresses
\* ------------------------------------------------------------------------
\* createAdapter: the error it throws for the chain, NoError when it succeeds
createAdapter(chainId, isSolana, evmProvider, solanaProvider) ==
  IF isSolana
    THEN IF ~solanaProvider THEN ErrSolanaNotConnected ELSE NoError
    ELSE IF ~evmProvider THEN ErrEvmNotConnected ELSE NoError

\* createAdapters creating the source adapter only
createAdaptersErrorSourceOnly(p) ==
  LET src == createAdapter(p.sourceChainId, isSolanaChain(p.sourceChainId),
                           p.evmProvider, p.solanaProvider)
  IN IF src # NoError THEN src
     ELSE IF ~IsSupported(p.sourceChainId) THEN ErrUnsupportedChain
     ELSE NoError

\* createAdapters up to its getAddress: the error thrown, NoError when none
createAdaptersError(p) ==
  LET src == createAdapter(p.sourceChainId, isSolanaChain(p.sourceChainId),
                           p.evmProvider, p.solanaProvider)
      dst == createAdapter(p.destChainId, isSolanaChain(p.destChainId),
                           p.evmProvider, p.solanaProvider)
  IN IF src # NoError THEN src
     ELSE IF dst # NoError THEN dst
     ELSE IF ~IsSupported(p.sourceChainId) THEN ErrUnsupportedChain
     ELSE NoError

\* createAdapters settles; the call goes on to the next await
CreateAdaptersSettles ==
  /\ UNCHANGED << util, other >>
  /\ pc = "createAdapters"
  /\ UNCHANGED << call, isSubmitting, burnLog, mintLog, outcome >>
  /\ LET p == call.p
         err == createAdaptersError(p)
         frame == [b EXCEPT !.sourceAddress = WalletAddress(isSolanaChain(p.sourceChainId)),
                            !.sourceChainDef = getChainDefinition(p.sourceChainId),
                            !.destChainDef = getChainDefinition(p.destChainId)]
     IN IF err # NoError
          THEN /\ Throw(err)
               /\ UNCHANGED << current, statusLog, events, b, n >>
        ELSE IF ~IsSupported(p.destChainId)
          THEN /\ Throw(ErrUnsupportedChain)
               /\ b' = [frame EXCEPT !.destChainDef = "undefined"]
               /\ UNCHANGED << current, statusLog, events, n >>
        ELSE IF call.kind = "transfer"
          THEN /\ pc' = "destAddress"
               /\ b' = frame
               /\ UNCHANGED << current, statusLog, events, n, pending >>
          ELSE \* recovery: fetchAttestation(sourceCtx, normalizedTxHash)
               /\ Emit(<< Ev("fetchAttestation", "pending", UNDEF) >>)
               /\ n' = [n EXCEPT !.fetchAttestation = @ + 1]
               /\ b' = frame
               /\ pc' = "attest"
               /\ UNCHANGED pending

\* getAddress of the source wallet throws
SourceAddressThrows(e) ==
  /\ UNCHANGED << util, other >>
  /\ pc = "createAdapters"
  /\ createAdaptersError(call.p) = NoError
  /\ Throw(e)
  /\ UNCHANGED << call, current, isSubmitting, statusLog, events, b, n,
                  burnLog, mintLog, outcome >>

\* executeMint up to provider.mint
StartMint(frame, evs) ==
  /\ Emit(evs \o << Ev("mint", "pending", UNDEF) >>)
  /\ b' = [frame EXCEPT !.attempt = 1, !.lastTxHash = UNDEF, !.lastError = NoError,
                        !.isSolana = isSolanaChain(getChainIdFromContext(frame.destCtx.chain))]
  /\ n' = [n EXCEPT !.mintBuild = @ + 1]
  /\ pc' = "mintBuild"

\* getAddress of the destination wallet resolves and a recovery goes on as a
\* transfer does
DestAddressResolvesThenBurn ==
  /\ UNCHANGED << util, other >>
  /\ pc = "destAddress"
  /\ UNCHANGED << call, isSubmitting, burnLog, mintLog, pending, outcome >>
  /\ LET destAddress == WalletAddress(isSolanaChain(call.p.destChainId))
         frame == [b EXCEPT !.destCtx = createDestinationContext(
                                          b.destChainDef, destAddress, b.recipientAddress)]
     IN IF NameIncludesSolana(b.sourceChainDef)
          THEN /\ Emit(<< Ev("approve", "noop", UNDEF), Ev("burn", "pending", UNDEF) >>)
               /\ b' = [frame EXCEPT !.attempt = 1]
               /\ n' = [n EXCEPT !.burnBuild = @ + 1]
               /\ pc' = "burnBuild"
          ELSE /\ Emit(<< Ev("approve", "pending", UNDEF) >>)
               /\ b' = frame
               /\ n' = [n EXCEPT !.approveBuild = @ + 1]
               /\ pc' = "approveBuild"

\* getAddress of the destination wallet resolves
DestAddressResolves ==
  /\ UNCHANGED << util, other >>
  /\ pc = "destAddress"
  /\ UNCHANGED << call, isSubmitting, burnLog, mintLog, pending, outcome >>
  /\ LET destAddress == WalletAddress(isSolanaChain(call.p.destChainId))
         frame == [b EXCEPT !.destCtx = createDestinationContext(
                                          b.destChainDef, destAddress, b.recipientAddress)]
     IN IF call.kind = "recover"
          THEN StartMint(frame, <<>>)
        ELSE IF NameIncludesSolana(b.sourceChainDef)
          THEN \* executeApprove skips; executeBurn up to provider.burn
               /\ Emit(<< Ev("approve", "noop", UNDEF), Ev("burn", "pending", UNDEF) >>)
               /\ b' = [frame EXCEPT !.attempt = 1]
               /\ n' = [n EXCEPT !.burnBuild = @ + 1]
               /\ pc' = "burnBuild"
          ELSE \* executeApprove up to provider.approve
               /\ Emit(<< Ev("approve", "pending", UNDEF) >>)
               /\ b' = frame
               /\ n' = [n EXCEPT !.approveBuild = @ + 1]
               /\ pc' = "approveBuild"

DestAddressThrows(e) ==
  /\ UNCHANGED << util, other >>
  /\ pc = "destAddress"
  /\ Throw(e)
  /\ UNCHANGED << call, current, isSubmitting, statusLog, events, b, n,
                  burnLog, mintLog, outcome >>

\* ------------------------------------------------------------------------
\* Orchestrator: approve
\* ------------------------------------------------------------------------
\* executeBurn up to provider.burn
StartBurn(evs) ==
  /\ Emit(evs \o << Ev("burn", "pending", UNDEF) >>)
  /\ b' = [b EXCEPT !.attempt = 1]
  /\ pc' = "burnBuild"

\* provider.approve resolves: a request, or null when none is needed
ApproveBuilt(needed) ==
  /\ UNCHANGED << util, other >>
  /\ pc = "approveBuild"
  /\ UNCHANGED << call, isSubmitting, burnLog, mintLog, pending, outcome >>
  /\ IF needed
       THEN /\ pc' = "approveExec"
            /\ n' = [n EXCEPT !.approveExec = @ + 1]
            /\ UNCHANGED << current, statusLog, events, b >>
       ELSE /\ StartBurn(<< Ev("approve", "noop", UNDEF) >>)
            /\ n' = [n EXCEPT !.burnBuild = @ + 1]

\* approveRequest.execute() resolves
ApproveExecuted ==
  /\ UNCHANGED << util, other >>
  /\ pc = "approveExec"
  /\ StartBurn(<< Ev("approve", "success", UNDEF) >>)
  /\ n' = [n EXCEPT !.burnBuild = @ + 1]
  /\ UNCHANGED << call, isSubmitting, burnLog, mintLog, pending, outcome >>

\* provider.approve or the approval's execute() throws, and executeApprove
\* goes on to the burn
ApproveThrowsSwallowed(e) ==
  /\ UNCHANGED << util, other >>
  /\ pc \in {"approveBuild", "approveExec"}
  /\ StartBurn(<<>>)
  /\ n' = [n EXCEPT !.approveFailed = @ + 1, !.burnBuild = @ + 1]
  /\ UNCHANGED << call, isSubmitting, burnLog, mintLog, pending, outcome >>

\* provider.approve or the approval's execute() throws
ApproveThrows(e) ==
  /\ UNCHANGED << util, other >>
  /\ pc \in {"approveBuild", "approveExec"}
  /\ Throw(e)
  /\ n' = [n EXCEPT !.approveFailed = @ + 1]
  /\ UNCHANGED << call, current, isSubmitting, statusLog, events, b,
                  burnLog, mintLog, outcome >>

\* ------------------------------------------------------------------------
\* Orchestrator: burn
\* ------------------------------------------------------------------------
SourceIsSolana == isSolanaChain(call.p.sourceChainId)

\* fetchAttestation up to provider.fetchAttestation
StartAttestation(evs, txHash, lastError) ==
  /\ Emit(evs \o << Ev("fetchAttestation", "pending", UNDEF) >>)
  /\ b' = [b EXCEPT !.txHash = txHash, !.lastTxHash = txHash, !.lastError = lastError]
  /\ n' = [n EXCEPT !.fetchAttestation = @ + 1]
  /\ pc' = "attest"
  /\ UNCHANGED pending

\* a failed burn attempt that reports an error event before it is retried
BurnAttemptFailsNotifying(error) ==
  LET decision == executeWithRetryCatch(error, b.attempt, BURN_MAX_ATTEMPTS, UNDEF)
      c == executeBurnCatch(b.lastTxHash, error)
  IN /\ burnLog' = Append(burnLog, [kind |-> "error", error |-> error, hash |-> UNDEF])
     /\ IF decision = "retry"
          THEN /\ Emit(<< Ev("burn", "error", UNDEF) >>)
               /\ b' = [b EXCEPT !.attempt = @ + 1, !.lastError = error]
               /\ n' = [n EXCEPT !.burnBuild = @ + 1]
               /\ pc' = "burnBuild"
               /\ UNCHANGED pending
        ELSE IF c.ok
          THEN StartAttestation(<< c.event >>, c.txHash, error)
        ELSE /\ Emit(<< c.event >>)
             /\ b' = [b EXCEPT !.lastError = error]
             /\ Throw(c.thrown)
             /\ UNCHANGED n

\* a burn attempt failed with error: executeWithRetry's catch, then
\* executeBurn's catch
BurnAttemptFails(error) ==
  LET decision == executeWithRetryCatch(error, b.attempt, BURN_MAX_ATTEMPTS, UNDEF)
      c == executeBurnCatch(b.lastTxHash, error)
  IN /\ burnLog' = Append(burnLog, [kind |-> "error", error |-> error, hash |-> UNDEF])
     /\ IF decision = "retry"
          THEN /\ b' = [b EXCEPT !.attempt = @ + 1, !.lastError = error]
               /\ n' = [n EXCEPT !.burnBuild = @ + 1]
               /\ pc' = "burnBuild"
               /\ UNCHANGED << current, statusLog, events, pending >>
        ELSE IF c.ok
          THEN StartAttestation(<< c.event >>, c.txHash, error)
        ELSE /\ Emit(<< c.event >>)
             /\ b' = [b EXCEPT !.lastError = error]
             /\ Throw(c.thrown)
             /\ UNCHANGED n

\* provider.burn resolves with the request: execute() is called and raced
\* against the 30 s timer
BurnBuilt ==
  /\ UNCHANGED << util, other >>
  /\ pc = "burnBuild"
  /\ pc' = "burnRace"
  /\ n' = [n EXCEPT !.burnExec = @ + 1]
  /\ UNCHANGED << call, current, isSubmitting, statusLog, events, b,
                  burnLog, mintLog, pending, outcome >>

BurnBuildThrows(e) ==
  /\ UNCHANGED << util, other >>
  /\ pc = "burnBuild"
  /\ BurnAttemptFails(e)
  /\ UNCHANGED << call, isSubmitting, mintLog, outcome >>

\* burnRequest.execute() resolves with the hash of the transaction, which
\* has taken effect
BurnExecResolves ==
  /\ UNCHANGED << util, other >>
  /\ pc = "burnRace"
  /\ b.attempt \in n.burnLanded
  /\ LET hash == BurnHash(b.attempt)
     IN /\ burnLog' = Append(burnLog, [kind |-> "hash", error |-> NoError, hash |-> hash])
        /\ StartAttestation(<< Ev("burn", "success", hash) >>, hash, b.lastError)
  /\ UNCHANGED << call, isSubmitting, mintLog, outcome >>

\* burnRequest.execute() rejects; of a transaction that took effect the
\* client can only have lost sight (an error of the expiry class)
BurnExecRejects(e) ==
  /\ UNCHANGED << util, other >>
  /\ pc = "burnRace"
  /\ b.attempt \in n.burnLanded => isSolanaTxExpiredError(e)
  /\ BurnAttemptFails(e)
  /\ UNCHANGED << call, isSubmitting, mintLog, outcome >>

\* the 30 s timer fires and its callback returns without rejecting the race
BurnTimerIgnored ==
  /\ pc = "burnRace"
  /\ UNCHANGED vars

\* the 30 s timer fires while execute() is pending: with no hash seen it
\* rejects the race (with one, the callback only returns)
BurnTimerFires ==
  /\ UNCHANGED << util, other >>
  /\ pc = "burnRace"
  /\ ~Truthy(b.lastTxHash)
  /\ BurnAttemptFails(ErrBurnTimeout)
  /\ UNCHANGED << call, isSubmitting, mintLog, outcome >>

\* the burn's timer rejected the race and execute() has not settled since
BurnExecOutstanding ==
  /\ burnLog # <<>>
  /\ burnLog[Len(burnLog)].kind = "error"
  /\ burnLog[Len(burnLog)].error = ErrBurnTimeout
  /\ ~Truthy(b.lastTxHash)

\* the transaction that burnRequest.execute() submitted takes effect on the
\* source chain, while the race is pending or after its timer rejected it
BurnLands ==
  /\ UNCHANGED << util, other >>
  /\ \/ pc = "burnRace"
     \/ pc \in {"drain", "done"} /\ BurnExecOutstanding
  /\ b.attempt \notin n.burnLanded
  /\ n' = [n EXCEPT !.burnLanded = @ \cup {b.attempt}]
  /\ UNCHANGED << pc, call, current, isSubmitting, statusLog, events, b,
                  burnLog, mintLog, pending, outcome >>

\* burnRequest.execute() resolves after its timer rejected the race: the
\* then-callback stores the hash in lastTxHash, and the race, settled
\* already, takes no notice
LateBurnExecResolves ==
  /\ UNCHANGED << util, other >>
  /\ pc \in {"drain", "done"}
  /\ BurnExecOutstanding
  /\ b.attempt \in n.burnLanded
  /\ b' = [b EXCEPT !.lastTxHash = BurnHash(b.attempt)]
  /\ UNCHANGED << pc, call, current, isSubmitting, statusLog, events, n,
                  burnLog, mintLog, pending, outcome >>

\* ------------------------------------------------------------------------
\* Orchestrator: attestation
\* ------------------------------------------------------------------------
\* provider.fetchAttestation resolves with a payload naming mintRecipient
AttestationArrives(mintRecipient) ==
  /\ UNCHANGED << util, other >>
  /\ pc = "attest"
  /\ call.kind = "transfer" => mintRecipient = b.recipientAddress
  /\ UNCHANGED << call, isSubmitting, burnLog, mintLog, outcome >>
  /\ LET attestation == [mintRecipient |-> mintRecipient]
         done == << Ev("fetchAttestation", "success", UNDEF) >>
         recipientAddress == extractRecipientFromAttestation(attestation)
     IN IF call.kind = "transfer"
          THEN /\ StartMint([b EXCEPT !.attestation = attestation], done)
               /\ UNCHANGED pending
        ELSE IF ~Truthy(recipientAddress)
          THEN /\ Emit(done)
               /\ b' = [b EXCEPT !.attestation = attestation]
               /\ Throw(ErrNoRecipient)
               /\ UNCHANGED n
        ELSE /\ Emit(done)
             /\ b' = [b EXCEPT !.attestation = attestation,
                               !.recipientAddress = recipientAddress]
             /\ pc' = "destAddress"
             /\ UNCHANGED << n, pending >>

AttestationFails(e) ==
  /\ UNCHANGED << util, other >>
  /\ pc = "attest"
  /\ Throw(e)
  /\ UNCHANGED << call, current, isSubmitting, statusLog, events, b, n,
                  burnLog, mintLog, outcome >>

\* ------------------------------------------------------------------------
\* Orchestrator: mint
\* ------------------------------------------------------------------------
Result(mintTxHash) ==
  createSuccessResult(b.amountBaseUnits, b.sourceAddress, b.recipientAddress,
                      b.txHash, mintTxHash)

Return(result) ==
  /\ pc' = "drain"
  /\ pending' = Returned(result)

\* hash || lastTxHash || 'mint-completed'
MintRaceResult(hash, lastTxHash) == Or(hash, Or(lastTxHash, "mint-completed"))

\* a mint attempt failed with error: executeWithRetry's catch, then
\* executeMint's catch
MintAttemptFails(error) ==
  LET decision == executeWithRetryCatch(error, b.attempt, MINT_MAX_ATTEMPTS, UNDEF)
      c == executeMintCatch(b.lastTxHash, error, b.isSolana)
  IN /\ mintLog' = Append(mintLog, [kind |-> "error", error |-> error, hash |-> UNDEF])
     /\ IF decision = "retry"
          THEN /\ b' = [b EXCEPT !.attempt = @ + 1, !.lastError = error]
               /\ n' = [n EXCEPT !.mintBuild = @ + 1]
               /\ pc' = "mintBuild"
               /\ UNCHANGED << current, statusLog, events, pending >>
          ELSE /\ Emit(<< c.event >>)
               /\ b' = [b EXCEPT !.lastError = error]
               /\ IF c.ok THEN Return(Result(c.txHash)) ELSE Throw(c.thrown)
               /\ UNCHANGED n

\* provider.mint resolves with the request: execute() is called and raced
\* against the 30 s (Solana) or 20 s (EVM) timer
MintBuilt ==
  /\ UNCHANGED << util, other >>
  /\ pc = "mintBuild"
  /\ pc' = "mintRace"
  /\ n' = [n EXCEPT !.mintExec = @ + 1]
  /\ UNCHANGED << call, current, isSubmitting, statusLog, events, b,
                  burnLog, mintLog, pending, outcome >>

MintBuildThrows(e) ==
  /\ UNCHANGED << util, other >>
  /\ pc = "mintBuild"
  /\ MintAttemptFails(e)
  /\ UNCHANGED << call, isSubmitting, burnLog, outcome >>

\* mintRequest.execute() resolves with the transaction hash
MintExecResolves ==
  /\ UNCHANGED << util, other >>
  /\ pc = "mintRace"
  /\ LET txHash == MintRaceResult(MintHash, MintHash)
     IN /\ mintLog' = Append(mintLog, [kind |-> "hash", error |-> NoError, hash |-> MintHash])
        /\ Emit(<< Ev("mint", "success", txHash) >>)
        /\ b' = [b EXCEPT !.lastTxHash = MintHash]
        /\ Return(Result(txHash))
  /\ UNCHANGED << call, isSubmitting, n, burnLog, outcome >>

MintExecRejects(e) ==
  /\ UNCHANGED << util, other >>
  /\ pc = "mintRace"
  /\ MintAttemptFails(e)
  /\ UNCHANGED << call, isSubmitting, burnLog, outcome >>

\* the mint timer fires while execute() is pending
MintTimerFires ==
  /\ UNCHANGED << util, other >>
  /\ pc = "mintRace"
  /\ ~Truthy(b.lastTxHash)
  /\ MintAttemptFails(ErrMintTimeout(b.isSolana))
  /\ UNCHANGED << call, isSubmitting, burnLog, outcome >>

\* the mint's timer rejected the race and execute() has not settled since
MintExecOutstanding ==
  /\ mintLog # <<>>
  /\ mintLog[Len(mintLog)].kind = "error"
  /\ mintLog[Len(mintLog)].error = ErrMintTimeout(b.isSolana)
  /\ ~Truthy(b.lastTxHash)

\* mintRequest.execute() resolves after its timer rejected the race
LateMintExecResolves ==
  /\ UNCHANGED << util, other >>
  /\ pc \in {"drain", "done"}
  /\ MintExecOutstanding
  /\ b' = [b EXCEPT !.lastTxHash = MintHash]
  /\ UNCHANGED << pc, call, current, isSubmitting, statusLog, events, n,
                  burnLog, mintLog, pending, outcome >>

\* ------------------------------------------------------------------------
\* The finally block's 200 ms pause ends: the orchestrator call settles and
\* the store action runs to its end
\* ------------------------------------------------------------------------
Drain ==
  /\ UNCHANGED << util, other >>
  /\ pc = "drain"
  /\ Settle(call.kind, current, statusLog, pending, TRUE)
  /\ UNCHANGED << call, events, b, n, burnLog, mintLog, pending >>

\* The store action's promise has settled and its caller has resumed: the
\* call's own variables are gone, the store keeps the session
CallerResumes ==
  /\ UNCHANGED << util, other >>
  /\ pc = "done"
  /\ pc' = "idle"
  /\ call' = [kind |-> "none", p |-> NoParams]
  /\ statusLog' = <<>>
  /\ events' = <<>>
  /\ b' = Frame0
  /\ n' = Counts0
  /\ burnLog' = <<>>
  /\ mintLog' = <<>>
  /\ pending' = Pending0
  /\ outcome' = Outcome0
  /\ UNCHANGED << current, isSubmitting >>

DestIsSolana == isSolanaChain(call.p.destChainId)

Next ==
  \/ \E p \in TransferParams : InitiateTransfer(p)
  \/ \E p \in RecoverParams : RecoverTransfer(p)
  \/ Reset
  \/ CreateAdaptersSettles
  \/ \E e \in WalletErrors : SourceAddressThrows(e)
  \/ DestAddressResolves
  \/ \E e \in WalletErrors : DestAddressThrows(e)
  \/ \E needed \in BOOLEAN : ApproveBuilt(needed)
  \/ ApproveExecuted
  \/ \E e \in ChainErrors(SourceIsSolana) : ApproveThrows(e)
  \/ BurnBuilt
  \/ \E e \in BuildErrors(SourceIsSolana) : BurnBuildThrows(e)
  \/ BurnExecResolves
  \/ \E e \in ChainErrors(SourceIsSolana) : BurnExecRejects(e)
  \/ BurnLands
  \/ BurnTimerFires
  \/ LateBurnExecResolves
  \/ \E r \in BurnRecipients : AttestationArrives(r)
  \/ \E e \in AttestationErrors : AttestationFails(e)
  \/ MintBuilt
  \/ \E e \in BuildErrors(DestIsSolana) : MintBuildThrows(e)
  \/ MintExecResolves
  \/ \E e \in MintErrors(DestIsSolana) : MintExecRejects(e)
  \/ MintTimerFires
  \/ LateMintExecResolves
  \/ Drain
  \/ CallerResumes

Spec == Init /\ [][Next]_vars

\* setTimeout callbacks run: a timer that is set does fire
TimerSpec ==
  Spec /\ WF_vars(BurnTimerFires) /\ WF_vars(MintTimerFires)

\* ------------------------------------------------------------------------
\* A second store action overlapping the call in flight
\* ------------------------------------------------------------------------
\* The store has no guard against a second action while one is in flight.
\* The overlapping action is a recoverTransfer whose attestation fails; only
\* its set() calls on the store are modelled.
OtherParams ==
  [ sourceChainId |-> "solana-devnet", destChainId |-> "base-sepolia",
    amount |-> "1.5", recipientAddress |-> UNDEF, sourceTxHash |-> SolSig,
    evmProvider |-> TRUE, solanaProvider |-> TRUE ]

\* the call of the model is in flight: its store action has not settled
CallInFlight == pc \notin {"idle", "done"}

\* recoverTransfer of the overlapping action up to its first await
OtherRecoverStarts ==
  /\ UNCHANGED util
  /\ CallInFlight
  /\ other.phase = "none"
  /\ LET session == [NewSession(OtherParams, "BURNING", OtherParams.sourceTxHash)
                       EXCEPT !.transactionId = "session-of-other"]
     IN /\ isSubmitting' = TRUE
        /\ current' = session
        /\ other' = [phase |-> "createAdapters", session |-> session]
  /\ UNCHANGED << pc, call, statusLog, events, b, n, burnLog, mintLog,
                  pending, outcome >>

\* its adapters are created and fetchAttestation emits its pending event
OtherAttestationPending ==
  /\ UNCHANGED util
  /\ other.phase = "createAdapters"
  /\ LET event == Ev("fetchAttestation", "pending", UNDEF)
         upd(cur) == IF cur = NoSession THEN NoSession ELSE RecoverOnProgress(cur, event)
     IN /\ current' = upd(current)
        /\ other' = [phase |-> "attest", session |-> upd(other.session)]
  /\ UNCHANGED << pc, call, isSubmitting, statusLog, events, b, n, burnLog,
                  mintLog, pending, outcome >>

\* its provider.fetchAttestation rejects: the finally block's pause begins
OtherAttestationFails ==
  /\ UNCHANGED util
  /\ other.phase = "attest"
  /\ other' = [other EXCEPT !.phase = "drain"]
  /\ UNCHANGED << pc, call, current, isSubmitting, statusLog, events, b, n,
                  burnLog, mintLog, pending, outcome >>

\* its orchestrator call rejects and the store action runs to its end
OtherSettles ==
  /\ UNCHANGED util
  /\ other.phase = "drain"
  /\ LET out == Threw(EAttTimeout)
     IN /\ current' = SettleStore("recover", current, out).cur
        /\ other' = [phase |-> "ended",
                     session |-> SettleStore("recover", other.session, out).cur]
  /\ isSubmitting' = FALSE
  /\ UNCHANGED << pc, call, statusLog, events, b, n, burnLog, mintLog,
                  pending, outcome >>

\* the calls during which a second action is started: valid transfers and
\* recoveries between the two chains
OverlapTransferParams ==
  { p \in TransferParams :
      /\ p.sourceChainId # p.destChainId
      /\ {p.sourceChainId, p.destChainId} = {"solana-devnet", "base-sepolia"}
      /\ p.amount = "1.5" /\ p.recipientAddress = "recipient-1"
      /\ p.evmProvider /\ p.solanaProvider }

OverlapRecoverParams ==
  { p \in RecoverParams :
      /\ p.sourceChainId = "base-sepolia" /\ p.destChainId = "solana-devnet"
      /\ p.amount = "1.5" /\ p.sourceTxHash = TxLower
      /\ p.evmProvider /\ p.solanaProvider }

OverlapNext ==
  \/ \E p \in OverlapTransferParams : InitiateTransfer(p)
  \/ \E p \in OverlapRecoverParams : RecoverTransfer(p)
  \/ Reset
  \/ CreateAdaptersSettles
  \/ DestAddressResolves
  \/ \E needed \in BOOLEAN : ApproveBuilt(needed)
  \/ ApproveExecuted
  \/ BurnBuilt
  \/ BurnLands
  \/ BurnExecResolves
  \/ \E e \in {EExpired, ECustomOther} : BurnExecRejects(e)
  \/ \E r \in BurnRecipients : AttestationArrives(r)
  \/ \E e \in AttestationErrors : AttestationFails(e)
  \/ MintBuilt
  \/ MintExecResolves
  \/ \E e \in {ECustom0, ERevertEvm} : MintExecRejects(e)
  \/ Drain
  \/ CallerResumes
  \/ OtherRecoverStarts
  \/ OtherAttestationPending
  \/ OtherAttestationFails
  \/ OtherSettles

OverlapSpec == Init /\ [][OverlapNext]_vars

-----------------------------------------------------------------------------
\* The utility functions, applied to amounts written in different ways

IntegerParts ==
  { <<>>, << "0" >>, << "1" >>, << "1", "2" >>, << "0", "0", "7" >>,
    << "-", "1" >> }

FractionDigits ==
  { << "0" >>,
    << "5" >>,
    << "5", "0" >>,
    << "0", "5" >>,
    << "0", "0", "0", "0", "0", "1" >>,
    << "1", "2", "3", "4", "5", "6" >>,
    << "1", "2", "3", "4", "5", "6", "7" >>,
    << "2", "3", "4", "5", "6", "7", "8", "9" >>,
    << "0", "0", "0", "0", "0", "0" >> }

FractionParts ==
  { <<>>, << "." >> } \cup { << "." >> \o f : f \in FractionDigits }

Paddings == { <<>>, << " " >> }

AmountInputs ==
  { pad \o i \o f \o pad :
      pad \in Paddings, i \in IntegerParts, f \in FractionParts }
  \cup { Chars("abc") }

\* parseUSDC(amount)
ParseAmount(amount) ==
  /\ util' = [op |-> "parseUSDC", input |-> amount, out |-> parseUSDC(amount)]
  /\ UNCHANGED callVars

\* formatUSDC(parseUSDC(amount), maxDecimals), after parseUSDC returned
FormatParsed(maxDecimals) ==
  /\ util.op = "parseUSDC"
  /\ util.out.ok
  /\ util' = [op |-> "formatUSDC", input |-> util.input,
              rawAmount |-> util.out.value, maxDecimals |-> maxDecimals,
              out |-> formatUSDC(util.out.value, maxDecimals)]
  /\ UNCHANGED callVars

\* isValidUSDCAmount(amount): the try around its body catches everything, so
\* the call always ends by returning
ValidateAmount(amount) ==
  /\ util' = [op |-> "isValidUSDCAmount", input |-> amount,
              out |-> [threw |-> FALSE, value |-> isValidUSDCAmount(amount)]]
  /\ UNCHANGED callVars

\* every status a session can carry, in the order of its declaration
CCTP_TRANSACTION_STATUS ==
  << "PENDING", "BURNING", "BURNED", "ATTESTING", "ATTESTED", "MINTING",
     "MINTED", "COMPLETED", "FAILED", "EXPIRED" >>

\* TransferStatus with MINTING counted as mint confirmed
TransferStatusMintingConfirmed(status) ==
  [ steps |->
      << [key |-> "PENDING", reached |-> TRUE],
         [key |-> "BURNED",
          reached |-> status \in {"BURNED", "ATTESTING", "ATTESTED", "MINTING",
                                  "MINTED", "COMPLETED"}],
         [key |-> "ATTESTED",
          reached |-> status \in {"ATTESTED", "MINTING", "MINTED", "COMPLETED"}],
         [key |-> "MINTED",
          reached |-> status \in {"MINTING", "MINTED", "COMPLETED"}],
         [key |-> "COMPLETED", reached |-> status = "COMPLETED"] >>,
    isFailed |-> status = "FAILED" \/ status = "EXPIRED" ]

\* what TransferStatus computes from current.status: the checklist of
\* milestones and the failed indicator
TransferStatus(status) ==
  [ steps |->
      << [key |-> "PENDING", reached |-> TRUE],
         [key |-> "BURNED",
          reached |-> status \in {"BURNED", "ATTESTING", "ATTESTED", "MINTING",
                                  "MINTED", "COMPLETED"}],
         [key |-> "ATTESTED",
          reached |-> status \in {"ATTESTED", "MINTING", "MINTED", "COMPLETED"}],
         [key |-> "MINTED",
          reached |-> status \in {"MINTED", "COMPLETED"}],
         [key |-> "COMPLETED", reached |-> status = "COMPLETED"] >>,
    isFailed |-> status = "FAILED" \/ status = "EXPIRED" ]

\* TransferStatus rendered for a session of the given status
RenderStatus(status) ==
  /\ util' = [op |-> "TransferStatus", input |-> <<>>, status |-> status,
              out |-> TransferStatus(status)]
  /\ UNCHANGED callVars

\* the errors executeBurn's catch can be given
BurnCatchErrors ==
  ChainErrors(TRUE) \cup ChainErrors(FALSE) \cup {ErrBurnTimeout}

\* executeBurn's catch is entered with error while lastTxHash holds what the
\* attempts' execute() left there: undefined, or a hash when the error was
\* thrown after execute() resolved (the try also covers the notification of
\* the burn success to the caller's onProgress)
BurnCatchEntered(lastTxHash, error) ==
  /\ util' = [op |-> "executeBurnCatch", input |-> <<>>,
              lastTxHash |-> lastTxHash, error |-> error,
              out |-> executeBurnCatch(lastTxHash, error)]
  /\ UNCHANGED callVars

UtilNext ==
  \/ \E amount \in AmountInputs : ParseAmount(amount)
  \/ \E maxDecimals \in {FORMAT_MAX_DECIMALS, DISPLAY_MAX_DECIMALS} :
       FormatParsed(maxDecimals)
  \/ \E amount \in AmountInputs : ValidateAmount(amount)
  \/ \E i \in DOMAIN CCTP_TRANSACTION_STATUS :
       RenderStatus(CCTP_TRANSACTION_STATUS[i])
  \/ \E lastTxHash \in {UNDEF, BurnHash(1)}, error \in BurnCatchErrors :
       BurnCatchEntered(lastTxHash, error)

UtilSpec == Init /\ [][UtilNext]_vars

\* ------------------------------------------------------------------------
\* Properties
\* ------------------------------------------------------------------------
\* the error classes, by the text of the error
AmbiguousExpiry(e) ==
  e.has \cap { "block height exceeded", "BlockheightExceeded", "Signature has expired",
               "signature has expired", "Blockhash not found", "blockhash not found",
               "has expired" } # {}
AlreadyRedeemed(e) ==
  {"Custom", "0"} \subseteq e.has
    \/ e.has \cap {"already redeemed", "message already received"} # {}
TimedOut(e) == e.has \cap {"timeout", "Timeout"} # {}

FailedWith(entry) == entry.kind = "error"
HasSession == current # NoSession
EventsOf(step) == SelectSeq(events, LAMBDA e : e.step = step)
\* the events that end the mint step
MintResults == SelectSeq(events, LAMBDA e : e.step = "mint" /\ e.state # "pending")
MintSucceeded == \E i \in 1..Len(events) : events[i].step = "mint" /\ events[i].state = "success"

\* C1: in a transfer, a first burn attempt that fails with an ambiguous-expiry
\* error is followed by a second attempt; when that one returns hash h and
\* attestation and mint succeed, the session ends COMPLETED with
\* sourceTxHash = h after exactly 2 burn attempts.
C1_BurnRetryCompletes ==
  call.kind = "transfer" =>
    /\ (Len(burnLog) >= 1 /\ FailedWith(burnLog[1]) /\ AmbiguousExpiry(burnLog[1].error))
         => n.burnBuild >= 2
    /\ ( /\ pc = "done" /\ HasSession
         /\ Len(burnLog) = 2
         /\ FailedWith(burnLog[1]) /\ AmbiguousExpiry(burnLog[1].error)
         /\ burnLog[2].kind = "hash"
         /\ MintSucceeded )
         => /\ current.status = "COMPLETED"
            /\ current.sourceTxHash = burnLog[2].hash
            /\ n.burnBuild = 2
            /\ ~outcome.storeThrew

C1_Witness ==
  /\ pc = "done" /\ call.kind = "transfer" /\ HasSession
  /\ Len(burnLog) = 2
  /\ FailedWith(burnLog[1]) /\ AmbiguousExpiry(burnLog[1].error)
  /\ burnLog[2].hash = "burn-tx-2"
  /\ mintLog = << [kind |-> "hash", error |-> NoError, hash |-> MintHash] >>
  /\ current.status = "COMPLETED" /\ current.sourceTxHash = "burn-tx-2"

\* C2: when the mint attempt fails with an error of the already-redeemed
\* class, the transfer and the recovery both end without throwing, with
\* status COMPLETED and destTxHash "mint-already-completed".
C2_AlreadyRedeemedIsSuccess ==
  ( /\ pc = "done" /\ HasSession
    /\ Len(mintLog) = 1 /\ FailedWith(mintLog[1]) /\ AlreadyRedeemed(mintLog[1].error) )
    => /\ outcome.orch = "returned"
       /\ ~outcome.storeThrew
       /\ current.status = "COMPLETED"
       /\ current.destTxHash = "mint-already-completed"

C2_Witness ==
  /\ pc = "done" /\ call.kind = "recover" /\ HasSession
  /\ Len(mintLog) = 1 /\ mintLog[1].error = ERedeemedEvm
  /\ current.status = "COMPLETED"
  /\ current.destTxHash = "mint-already-completed"

\* C3: when the attestation service fails in a recovery, the orchestrator
\* throws, no mint is built or submitted, no mint event is emitted, and the
\* session has no destTxHash, never is COMPLETED and ends FAILED.
AttestationFailed ==
  \/ pc = "drain" /\ pending.threw /\ pending.error \in AttestationErrors
  \/ pc = "done" /\ outcome.orch = "threw" /\ outcome.error \in AttestationErrors

C3_NoAttestationNoMint ==
  (call.kind = "recover" /\ AttestationFailed) =>
    /\ n.mintBuild = 0 /\ n.mintExec = 0 /\ mintLog = <<>>
    /\ EventsOf("mint") = <<>>
    /\ \A i \in 1..Len(statusLog) : statusLog[i] # "COMPLETED"
    /\ HasSession =>
         /\ current.destTxHash = UNDEF
         /\ current.status # "COMPLETED"
         /\ pc = "done" => /\ current.status = "FAILED"
                           /\ current.errorMessage = outcome.error.id

C3_Witness ==
  /\ pc = "done" /\ call.kind = "recover" /\ HasSession
  /\ outcome.orch = "threw" /\ outcome.error = EAttTimeout
  /\ call.p.sourceTxHash = TxUpperSpaced /\ b.txHash = TxLower
  /\ current.status = "FAILED"

\* C4: in a recovery the destination context's recipientAddress and the
\* result's destination are the attestation's mintRecipient, whatever the
\* connected destination signer is.
C4_RecipientFromAttestation ==
  call.kind = "recover" =>
    /\ b.destCtx # NoCtx =>
         /\ b.attestation # NoAttestation
         /\ b.destCtx.recipientAddress = b.attestation.mintRecipient
    /\ (pc = "done" /\ outcome.orch = "returned") =>
         outcome.result.destination = b.attestation.mintRecipient

C4_Witness ==
  /\ pc = "done" /\ call.kind = "recover" /\ outcome.orch = "returned"
  /\ b.attestation.mintRecipient = "recipient-1"
  /\ b.destCtx.address = EvmSigner
  /\ b.destCtx.recipientAddress = "recipient-1"
  /\ outcome.result.destination = "recipient-1"

\* the documented order of the session statuses
StatusOrder ==
  << "PENDING", "BURNING", "BURNED", "ATTESTING", "ATTESTED", "MINTING", "COMPLETED" >>
StatusRank(status) == CHOOSE i \in 1..Len(StatusOrder) : StatusOrder[i] = status
DocumentedEdge(from, to) ==
  \/ to = from
  \/ to \in {"FAILED", "EXPIRED"}
  \/ /\ from \in {"PENDING", "BURNING", "BURNED", "ATTESTING", "ATTESTED", "MINTING"}
     /\ to \in {"BURNING", "BURNED", "ATTESTING", "ATTESTED", "MINTING", "COMPLETED"}
     /\ StatusRank(to) = StatusRank(from) + 1

\* C5: during one call every change of the session status is to the
\* documented next status or to FAILED/EXPIRED: no status is skipped and the
\* status never moves backward.
C5_StatusFollowsDocumentedEdges ==
  \A i \in 1..(Len(statusLog) - 1) : DocumentedEdge(statusLog[i], statusLog[i + 1])

\* C6: the burn is attempted at most 3 times, and every attempt but the last
\* failed with an error of the ambiguous-expiry class.
C6_BurnRetryOnlyOnExpiry ==
  /\ n.burnBuild <= 3 /\ n.burnExec <= 3 /\ Len(burnLog) <= 3
  /\ n.burnExec <= n.burnBuild
  /\ Len(burnLog) <= n.burnBuild
  /\ \A i \in 1..Len(burnLog) :
       i < n.burnBuild => FailedWith(burnLog[i]) /\ AmbiguousExpiry(burnLog[i].error)

C6_Witness ==
  /\ pc = "done" /\ call.kind = "transfer"
  /\ Len(burnLog) = 3 /\ n.burnBuild = 3
  /\ \A i \in 1..3 : FailedWith(burnLog[i]) /\ AmbiguousExpiry(burnLog[i].error)
  /\ outcome.orch = "threw"

\* C7: in one call the mint transaction is built at most once and submitted
\* at most once, whatever error the attempt ends with.
C7_MintAttemptedOnce ==
  n.mintBuild <= 1 /\ n.mintExec <= 1 /\ Len(mintLog) <= 1

C7_Witness ==
  /\ pc = "done" /\ n.mintBuild = 1 /\ n.mintExec = 1
  /\ Len(mintLog) = 1 /\ FailedWith(mintLog[1]) /\ AmbiguousExpiry(mintLog[1].error)
  /\ ~TimedOut(mintLog[1].error) /\ ~AlreadyRedeemed(mintLog[1].error)

\* the errors a mint attempt can end with
SampleMintErrors ==
  MintErrors(TRUE) \cup MintErrors(FALSE) \cup BuildErrors(TRUE) \cup BuildErrors(FALSE)
    \cup {ErrMintTimeout(TRUE), ErrMintTimeout(FALSE)}

\* C8: the mint step ends with exactly one result, chosen by priority: the
\* observed hash; else "mint-already-completed" for an already-redeemed
\* error, also when it matches timeout or ambiguous-expiry; else
\* "mint-check-wallet" for a timeout error, also when it matches
\* ambiguous-expiry.
C8_MintResultPriority ==
  /\ \A e \in SampleMintErrors, isSolana \in BOOLEAN :
       executeMintCatch(MintHash, e, isSolana) = MintOk(MintHash)
  /\ Len(MintResults) <= 1
  /\ mintLog # <<>> =>
       /\ Len(MintResults) = 1
       /\ LET m == mintLog[1]
              r == MintResults[1]
          IN IF m.kind = "hash" THEN r = Ev("mint", "success", m.hash)
             ELSE IF AlreadyRedeemed(m.error)
               THEN r = Ev("mint", "success", "mint-already-completed")
             ELSE IF TimedOut(m.error)
               THEN r = Ev("mint", "success", "mint-check-wallet")
             ELSE TRUE

C8_Witness ==
  /\ pc = "done" /\ call.kind = "transfer" /\ HasSession
  /\ Len(mintLog) = 1 /\ mintLog[1].error = EMixed
  /\ TimedOut(EMixed) /\ AmbiguousExpiry(EMixed) /\ AlreadyRedeemed(EMixed)
  /\ MintResults = << Ev("mint", "success", "mint-already-completed") >>
  /\ current.destTxHash = "mint-already-completed"

\* What each environment error means on-chain / for the user (ground truth,
\* which the code does not see: it sees the text only).
Cause(e) ==
  CASE e.id \in {"sol-expired", "sol-blockhash"}                   -> "expired"
    [] e.id \in {"sol-custom-0", "evm-already-received"}           -> "redeemed"
    [] e.id \in {"sol-custom-6016", "evm-reverted"}                -> "reverted"
    [] e.id \in {"sol-insufficient-rent", "evm-insufficient-funds"} -> "insufficient"
    [] e.id \in {"evm-user-denied", "wallet-reject-object"}        -> "rejected"
    [] e.id \in {"mixed-redeemed-timeout-expired", "mixed-timeout-expired"} -> "mixed"
    [] e.id \in {"attestation-not-found", "attestation-timeout"}   -> "unavailable"
    [] OTHER                                                       -> "other"

\* C9: a mint attempt that ends with a genuine execution failure (the
\* instruction reverted for another reason than already-redeemed, too little
\* balance for fees, the user rejected) is reported as a failure: a mint
\* error event, the orchestrator throws, the session ends FAILED.
C9_GenuineMintFailureFails ==
  ( /\ pc = "done" /\ HasSession
    /\ Len(mintLog) = 1 /\ FailedWith(mintLog[1])
    /\ Cause(mintLog[1].error) \in {"reverted", "insufficient", "rejected"} )
    => /\ MintResults = << Ev("mint", "error", UNDEF) >>
       /\ outcome.orch = "threw"
       /\ current.status = "FAILED"

\* the place of each step in a call
StepRank(step) ==
  CASE step = "approve" -> 1
    [] step = "burn" -> 2
    [] step = "fetchAttestation" -> 3
    [] step = "mint" -> 4

\* C10: the progress events of a call come in the order approve, burn,
\* fetchAttestation, mint; nothing follows a step's error; the attestation is
\* requested only after the burn step succeeded with a hash (in a recovery:
\* with the normalized source hash); the mint starts only after the
\* attestation was obtained.
C10_StepsSequential ==
  /\ \A i, j \in 1..Len(events) :
       i < j => /\ StepRank(events[i].step) <= StepRank(events[j].step)
                /\ events[i].state # "error"
                /\ events[i].step = events[j].step => events[i].state = "pending"
  /\ \A j \in 1..Len(events) :
       /\ (events[j].step = "fetchAttestation" /\ events[j].state = "pending") =>
            /\ Truthy(b.txHash)
            /\ call.kind = "transfer" =>
                 \E i \in 1..(j - 1) : events[i] = Ev("burn", "success", b.txHash)
       /\ (events[j].step = "mint" /\ events[j].state = "pending") =>
            /\ b.attestation # NoAttestation
            /\ \E i \in 1..(j - 1) : events[i] = Ev("fetchAttestation", "success", UNDEF)
  /\ pc = "attest" => n.mintBuild = 0
  /\ pc \in {"burnBuild", "burnRace"} => n.fetchAttestation = 0 /\ n.mintBuild = 0

C10_Witness ==
  /\ pc = "done" /\ call.kind = "transfer"
  /\ events = << Ev("approve", "pending", UNDEF), Ev("approve", "success", UNDEF),
                 Ev("burn", "pending", UNDEF), Ev("burn", "success", "burn-tx-1"),
                 Ev("fetchAttestation", "pending", UNDEF),
                 Ev("fetchAttestation", "success", UNDEF),
                 Ev("mint", "pending", UNDEF), Ev("mint", "success", MintHash) >>

\* C11: a transfer whose source chain is its destination chain emits no
\* progress event and builds no approval and no burn.
C11_SameChainRejected ==
  (call.kind = "transfer" /\ call.p.sourceChainId = call.p.destChainId) =>
    /\ events = <<>>
    /\ n.approveBuild = 0 /\ n.approveExec = 0
    /\ n.burnBuild = 0 /\ n.burnExec = 0

\* digits, optionally followed by a dot and 1 to 6 digits
IsDecimalAmount(cs) ==
  \E k \in 1..Len(cs) :
    /\ \A i \in 1..k : cs[i] \in Digits
    /\ \/ k = Len(cs)
       \/ /\ k + 1 < Len(cs) /\ cs[k + 1] = "."
          /\ Len(cs) - (k + 1) <= 6
          /\ \A i \in (k + 2)..Len(cs) : cs[i] \in Digits

InvalidCallInput ==
  \/ call.kind = "transfer" /\ ~Truthy(call.p.recipientAddress)
  \/ call.kind \in {"transfer", "recover"}
       /\ ~IsDecimalAmount(TrimChars(Chars(call.p.amount)))

IsExactEvmHash(cs) ==
  /\ Len(cs) = 66 /\ cs[1] = "0" /\ cs[2] = "x"
  /\ \A k \in 3..66 : cs[k] \in HexDigits

\* C13: a recovery from an EVM-like source chain whose identifier, trimmed,
\* is not exactly 0x and 64 hex digits fails at once: no progress event, no
\* attestation request.
C13_OnlyExactHashAccepted ==
  ( /\ call.kind = "recover" /\ ~isSolanaChain(call.p.sourceChainId)
    /\ ~IsExactEvmHash(TrimChars(Chars(call.p.sourceTxHash))) )
    => /\ events = <<>> /\ n.fetchAttestation = 0
       /\ pc = "done" => outcome.orch = "threw"

\* C14: when the approval throws the call ends there: nothing is burned,
\* requested or minted, only approve events were emitted, the orchestrator
\* throws, the store action re-throws and the session ends FAILED.
C14_ApproveFailureFailsTransfer ==
  n.approveFailed > 0 =>
    /\ pc \in {"drain", "done"}
    /\ n.burnBuild = 0 /\ n.burnExec = 0 /\ n.fetchAttestation = 0
    /\ n.mintBuild = 0 /\ n.mintExec = 0
    /\ \A i \in 1..Len(events) : events[i].step = "approve"
    /\ pc = "drain" => pending.threw
    /\ pc = "done" =>
         /\ outcome.orch = "threw" /\ outcome.storeThrew
         /\ HasSession => current.status = "FAILED" /\ Truthy(current.errorMessage)

C14_Witness ==
  /\ pc = "done" /\ call.kind = "transfer" /\ HasSession
  /\ n.approveFailed = 1 /\ n.approveExec = 1
  /\ events = << Ev("approve", "pending", UNDEF) >>
  /\ outcome.error = ERevertEvm /\ outcome.storeThrew
  /\ current.status = "FAILED"

\* C15: whenever the orchestrator call ends by throwing, the session ends
\* FAILED with an errorMessage and the store action re-throws to its caller.
C15_ThrowMeansFailedAndRethrown ==
  (pc = "done" /\ HasSession /\ outcome.orch = "threw") =>
    /\ current.status = "FAILED"
    /\ Truthy(current.errorMessage)
    /\ outcome.storeThrew

\* the leading zeros of the digits cs removed, one digit kept
RECURSIVE StripLeadingZeros(_)
StripLeadingZeros(cs) ==
  IF Len(cs) > 1 /\ cs[1] = "0" THEN StripLeadingZeros(Tail(cs)) ELSE cs

\* the trailing zeros of the fraction of cs removed, and the dot with them
\* when no fractional digit is left
RECURSIVE StripFractionZeros(_)
StripFractionZeros(cs) ==
  IF DotAt(cs) = 0 THEN cs
  ELSE IF cs[Len(cs)] \in {"0", "."}
    THEN StripFractionZeros(SubSeq(cs, 1, Len(cs) - 1))
  ELSE cs

\* the shortest numeral of the same value
Canonical(cs) ==
  LET d == DotAt(cs) IN
  IF d = 0 THEN StripLeadingZeros(cs)
  ELSE StripFractionZeros(
         StripLeadingZeros(SubSeq(cs, 1, d - 1)) \o SubSeq(cs, d, Len(cs)))

RECURSIVE Pow10(_)
Pow10(k) == IF k = 0 THEN 1 ELSE 10 * Pow10(k - 1)

\* the number the digits cs denote: the sum of digit * 10^place
RECURSIVE NumberOf(_)
NumberOf(cs) ==
  IF cs = <<>> THEN 0
  ELSE DigitValue(Head(cs)) * Pow10(Len(cs) - 1) + NumberOf(Tail(cs))

\* value * 10^6 for the decimal numeral cs with at most 6 fractional digits
MillionTimes(cs) ==
  LET d == DotAt(cs)
      whole == IF d = 0 THEN cs ELSE SubSeq(cs, 1, d - 1)
      fraction == IF d = 0 THEN <<>> ELSE SubSeq(cs, d + 1, Len(cs))
  IN NumberOf(whole) * Pow10(USDC_DECIMALS)
       + NumberOf(fraction) * Pow10(USDC_DECIMALS - Len(fraction))

\* C17: with the surrounding whitespace of the string removed first,
\* parseUSDC fails when the rest does not match digits(.digits)? and when it
\* has more than 6 fractional digits, and otherwise returns value * 10^6.
C17_ParseTrimmedExactly ==
  util.op = "parseUSDC" =>
    LET t == TrimChars(util.input) IN
    IF IsDecimalAmount(t)
      THEN util.out.ok /\ util.out.value = MillionTimes(t)
      ELSE ~util.out.ok

C17_Witness ==
  /\ util.op = "parseUSDC"
  /\ util.input = << " ", "1", "2", ".", "0", "5", " " >>
  /\ util.out.ok
  /\ util.out.value = 12050000

C17_TooManyDecimalsWitness ==
  /\ util.op = "parseUSDC"
  /\ util.input = << "1", ".", "1", "2", "3", "4", "5", "6", "7" >>
  /\ ~util.out.ok
  /\ util.out.error = ErrParseDecimals

\* C17 as stated: every string that does not itself match digits(.digits)?
\* with at most 6 fractional digits fails, every other gives value * 10^6.
C17_ParseExactly ==
  util.op = "parseUSDC" =>
    IF IsDecimalAmount(util.input)
      THEN util.out.ok /\ util.out.value = MillionTimes(util.input)
      ELSE ~util.out.ok

\* the numeral cs denotes a value above zero
DenotesPositive(cs) == \E i \in 1..Len(cs) : cs[i] \in Digits /\ cs[i] # "0"

\* C18: isValidUSDCAmount answers with a boolean for every string, and with
\* true exactly when the string, its surrounding whitespace removed, matches
\* digits(.digits)?, has at most 6 fractional digits and denotes a value
\* above zero: false for "0", "-1", "" and "1.23456789"; whenever it answers
\* true, parseUSDC of the same string succeeds with a result above 0.
C18_ValidIffTrimmedPositiveAmount ==
  util.op = "isValidUSDCAmount" =>
    LET t == TrimChars(util.input) IN
    /\ ~util.out.threw /\ util.out.value \in BOOLEAN
    /\ util.out.value = (IsDecimalAmount(t) /\ DenotesPositive(t))
    /\ util.input \in { << "0" >>, << "-", "1" >>, <<>>,
                        << "1", ".", "2", "3", "4", "5", "6", "7", "8", "9" >> }
         => ~util.out.value
    /\ util.out.value =>
         /\ parseUSDC(util.input).ok
         /\ parseUSDC(util.input).value > 0

C18_Witness ==
  /\ util.op = "isValidUSDCAmount"
  /\ util.input = << "0", ".", "0", "0", "0", "0", "0", "1" >>
  /\ util.out.value = TRUE
  /\ parseUSDC(util.input).value = 1

\* C18 as stated: true exactly for the strings that themselves match
\* digits(.digits)?, have at most 6 fractional digits and denote a value
\* above zero.
C18_ValidIffPositiveAmount ==
  util.op = "isValidUSDCAmount" =>
    util.out.value =
      (IsDecimalAmount(util.input) /\ DenotesPositive(util.input))

\* the forward order of the statuses
ForwardOrder ==
  << "PENDING", "BURNING", "BURNED", "ATTESTING", "ATTESTED", "MINTING",
     "MINTED", "COMPLETED" >>

InForwardOrder(status) == \E i \in DOMAIN ForwardOrder : ForwardOrder[i] = status

ForwardRank(status) == CHOOSE i \in DOMAIN ForwardOrder : ForwardOrder[i] = status

\* the milestones the projection marks reached for a status
ReachedSet(status) ==
  LET view == TransferStatus(status) IN
  { view.steps[i].key : i \in { j \in DOMAIN view.steps : view.steps[j].reached } }

\* C19: the projection marks PENDING reached for every status; it marks a
\* later milestone reached exactly when the status is the milestone's state
\* or a later one in the forward order, so the reached set only grows as the
\* status advances; and it shows the failed indicator exactly for FAILED and
\* EXPIRED.
C19_ProjectionFollowsForwardOrder ==
  util.op = "TransferStatus" =>
    LET steps == util.out.steps IN
    /\ steps[1].key = "PENDING" /\ steps[1].reached
    /\ \A i \in 2..Len(steps) :
         steps[i].reached <=>
           /\ InForwardOrder(util.status)
           /\ ForwardRank(util.status) >= ForwardRank(steps[i].key)
    /\ \A i \in DOMAIN ForwardOrder :
         (InForwardOrder(util.status) /\ ForwardRank(util.status) <= i) =>
           { steps[j].key : j \in { k \in DOMAIN steps : steps[k].reached } }
             \subseteq ReachedSet(ForwardOrder[i])
    /\ util.out.isFailed <=> util.status \in {"FAILED", "EXPIRED"}

C19_Witness ==
  /\ util.op = "TransferStatus"
  /\ util.status = "MINTING"
  /\ util.out.steps[3].key = "ATTESTED" /\ util.out.steps[3].reached
  /\ util.out.steps[4].key = "MINTED" /\ ~util.out.steps[4].reached
  /\ ~util.out.isFailed

\* C20: a call that names a source or destination chain the registry does
\* not contain emits no event, reaches no provider operation, and ends by
\* throwing.
C20_OnlyRegistryChainsAccepted ==
  (/\ call.kind \in {"transfer", "recover"}
   /\ \/ getChainById(call.p.sourceChainId) = UNDEF
      \/ getChainById(call.p.destChainId) = UNDEF) =>
    /\ events = <<>>
    /\ n = Counts0
    /\ pc = "done" => outcome.orch = "threw"

\* C21: when executeBurn handles an error with a burn hash observed, the burn
\* is a success with that hash (burn success event carrying it, hash
\* returned for the attestation), whatever the class of the error.
C21_ObservedBurnHashWins ==
  (util.op = "executeBurnCatch" /\ Truthy(util.lastTxHash)) =>
    /\ util.out.ok
    /\ util.out.event = Ev("burn", "success", util.lastTxHash)
    /\ util.out.txHash = util.lastTxHash

\* the hash an execute() delivered after its timer had fired
LateBurnHash ==
  IF /\ burnLog # <<>> /\ burnLog[Len(burnLog)].error = ErrBurnTimeout
     /\ mintLog = <<>>
    THEN b.lastTxHash ELSE UNDEF

LateMintHash ==
  IF mintLog # <<>> /\ mintLog[Len(mintLog)].error \in {ErrMintTimeout(TRUE), ErrMintTimeout(FALSE)}
    THEN b.lastTxHash ELSE UNDEF

\* C22: when the execution of the burn or of the mint resolves with a hash,
\* also after its timer fired, the step is reported as success with that
\* hash.
C22_LateHashPreferred ==
  /\ Truthy(LateBurnHash) =>
       \E i \in 1..Len(events) : events[i] = Ev("burn", "success", LateBurnHash)
  /\ Truthy(LateMintHash) =>
       \E i \in 1..Len(events) : events[i] = Ev("mint", "success", LateMintHash)

\* the one mint attempt of a finished call failed with an error of the
\* ambiguous-expiry class only
MintExpiredOnly ==
  /\ pc = "done" /\ HasSession
  /\ Len(mintLog) = 1 /\ FailedWith(mintLog[1])
  /\ AmbiguousExpiry(mintLog[1].error)
  /\ ~AlreadyRedeemed(mintLog[1].error)
  /\ ~TimedOut(mintLog[1].error)

MintEndedSignatureExpired ==
  /\ MintResults = << Ev("mint", "success", "mint-signature-expired") >>
  /\ outcome.orch = "returned"
  /\ current.status = "COMPLETED"
  /\ current.destTxHash = "mint-signature-expired"

\* C23: when the mint attempt fails with an error of the ambiguous-expiry
\* class only and the destination chain is of the Solana category, the mint
\* step ends as success with the sentinel "mint-signature-expired", the call
\* returns and the session is COMPLETED, in a transfer and in a recovery; on
\* an EVM destination the same error ends the mint step with the error event
\* and the call throws.
C23_ExpiredMintOnSolanaIsSuccess ==
  MintExpiredOnly =>
    IF DestIsSolana
      THEN MintEndedSignatureExpired
      ELSE /\ MintResults = << Ev("mint", "error", UNDEF) >>
           /\ outcome.orch = "threw"

C23_Witness ==
  /\ MintExpiredOnly /\ DestIsSolana
  /\ call.kind = "transfer"
  /\ mintLog[1].error = EExpired
  /\ MintEndedSignatureExpired

\* C23 as stated: the sentinel success whichever the category of the
\* destination chain.
C23_ExpiredMintIsSuccess ==
  MintExpiredOnly => MintEndedSignatureExpired

\* the mint's timer fired while execute() had not settled
MintTimerFired ==
  /\ mintLog # <<>>
  /\ mintLog[Len(mintLog)].kind = "error"
  /\ mintLog[Len(mintLog)].error \in {ErrMintTimeout(TRUE), ErrMintTimeout(FALSE)}

\* C24: when the mint's timer fires with execute() unsettled the mint step
\* is over at once and as a success: the mint success event carries
\* "mint-check-wallet", the call returns a result whose mint step carries it,
\* and the session ends COMPLETED with destTxHash = "mint-check-wallet".
C24_MintTimeoutIsSuccess ==
  MintTimerFired =>
    /\ pc \in {"drain", "done"}
    /\ MintResults = << Ev("mint", "success", "mint-check-wallet") >>
    /\ pc = "drain" =>
         /\ ~pending.threw
         /\ StepTxHash(pending.result, "mint") = "mint-check-wallet"
    /\ pc = "done" =>
         /\ outcome.orch = "returned" /\ ~outcome.storeThrew
         /\ outcome.result.state = "success"
         /\ StepTxHash(outcome.result, "mint") = "mint-check-wallet"
         /\ HasSession =>
              /\ current.status = "COMPLETED"
              /\ current.destTxHash = "mint-check-wallet"

C24_Witness ==
  /\ MintTimerFired /\ pc = "done" /\ HasSession
  /\ n.mintExec = 1 /\ ~Truthy(b.lastTxHash)
  /\ mintLog = << [kind |-> "error", error |-> ErrMintTimeout(FALSE), hash |-> UNDEF] >>
  /\ outcome.orch = "returned"
  /\ current.status = "COMPLETED"
  /\ current.destTxHash = "mint-check-wallet"

\* C25: in a transfer whose approve step does not fail, the events before the
\* burn pending event are the approve pending event followed by one approve
\* success or approve noop event, whichever the category of the source chain.
C25_ApprovePendingThenOutcome ==
  \A k \in 1..Len(events) :
    events[k] = Ev("burn", "pending", UNDEF) =>
      /\ k = 3
      /\ events[1] = Ev("approve", "pending", UNDEF)
      /\ events[2] \in { Ev("approve", "success", UNDEF), Ev("approve", "noop", UNDEF) }

\* C26: in every state of the store the session's errorMessage is set only
\* if its status is FAILED.
C26_ErrorMessageOnlyWhenFailed ==
  (HasSession /\ Truthy(current.errorMessage)) => current.status = "FAILED"

C26_Witness ==
  /\ pc = "idle" /\ HasSession
  /\ current.status = "FAILED"
  /\ Truthy(current.errorMessage)
  /\ current.sourceChainId = "solana-devnet"

BurnSucceeded ==
  \E i \in 1..Len(events) : events[i].step = "burn" /\ events[i].state = "success"

\* C27: while a call is running or has just ended, the session's destTxHash
\* is set only if a mint success event was emitted in the call, and in a
\* transfer its sourceTxHash is set only if a burn success event was emitted.
C27_HashesOnlyAfterSuccess ==
  (pc # "idle" /\ HasSession) =>
    /\ Truthy(current.destTxHash) => MintSucceeded
    /\ (call.kind = "transfer" /\ Truthy(current.sourceTxHash)) => BurnSucceeded

\* C28: every call that has ended went through the drain pause before its
\* caller resumed, whatever its outcome.
C28_DrainBeforeReturn ==
  pc = "done" => outcome.drained

InBurnStep == pc \in {"burnBuild", "burnRace"}
InMintStep == pc \in {"mintBuild", "mintRace"}

BurnEnded ==
  \E i \in 1..Len(events) :
    events[i].step = "burn" /\ events[i].state \in {"success", "error"}

MintEnded ==
  \E i \in 1..Len(events) :
    events[i].step = "mint" /\ events[i].state \in {"success", "error"}

\* provider.burn and provider.mint, which build the requests, settle
BuildsSettle ==
  /\ WF_vars(BurnBuilt \/ \E e \in BuildErrors(SourceIsSolana) : BurnBuildThrows(e))
  /\ WF_vars(MintBuilt \/ \E e \in BuildErrors(DestIsSolana) : MintBuildThrows(e))

AttemptsBounded ==
  /\ n.burnBuild <= BURN_MAX_ATTEMPTS /\ n.burnExec <= BURN_MAX_ATTEMPTS
  /\ Len(burnLog) <= BURN_MAX_ATTEMPTS
  /\ n.mintBuild <= MINT_MAX_ATTEMPTS /\ n.mintExec <= MINT_MAX_ATTEMPTS

RecoveryWithoutRecipient ==
  /\ call.kind = "recover"
  /\ b.attestation # NoAttestation
  /\ ~Truthy(b.attestation.mintRecipient)

\* C30: in recovery, an attestation payload with no mintRecipient makes the
\* call fail with the cannot-extract-recipient error right after the
\* attestation success event: no mint is built or submitted and no mint
\* progress event is emitted.
C30_NoRecipientNoMint ==
  RecoveryWithoutRecipient =>
    /\ pc \in {"drain", "done"}
    /\ events # <<>>
    /\ events[Len(events)] = Ev("fetchAttestation", "success", UNDEF)
    /\ \A i \in 1..Len(events) : events[i].step # "mint"
    /\ n.mintBuild = 0 /\ n.mintExec = 0 /\ mintLog = <<>>
    /\ pc = "drain" => pending.threw /\ pending.error = ErrNoRecipient
    /\ pc = "done" => /\ outcome.orch = "threw"
                      /\ outcome.error = ErrNoRecipient
                      /\ outcome.drained

C30_Witness ==
  /\ RecoveryWithoutRecipient
  /\ pc = "done"
  /\ outcome.orch = "threw"
  /\ outcome.error = ErrNoRecipient
  /\ n.fetchAttestation = 1

\* the address of the wallet connected for the destination chain
DestSigner == WalletAddress(isSolanaChain(call.p.destChainId))

\* C31: in a transfer the destination context handed to provider.burn and
\* provider.mint keeps the connected destination wallet's address as the
\* signer (address) and the intent's recipient as recipientAddress, from its
\* creation to the end of the call, and the result's destination is the
\* intent's recipient; the two differ and neither replaces the other.
C31_SignerAndRecipientSeparate ==
  call.kind = "transfer" =>
    /\ (n.burnBuild > 0 \/ n.mintBuild > 0 \/ n.approveBuild > 0) => b.destCtx # NoCtx
    /\ b.destCtx # NoCtx =>
         /\ b.destCtx.address = DestSigner
         /\ b.destCtx.recipientAddress = call.p.recipientAddress
         /\ b.recipientAddress = call.p.recipientAddress
         /\ b.destCtx.address # b.destCtx.recipientAddress
    /\ (pc \in {"drain", "done"} /\ ~pending.threw /\ pending.result # NoResult) =>
         pending.result.destination = call.p.recipientAddress
    /\ (pc = "done" /\ outcome.orch = "returned") =>
         outcome.result.destination = call.p.recipientAddress

C31_Witness ==
  /\ pc = "done" /\ call.kind = "transfer" /\ outcome.orch = "returned"
  /\ n.burnExec = 1 /\ n.mintExec = 1
  /\ call.p.recipientAddress = "recipient-1"
  /\ b.destCtx.address = SolanaSigner
  /\ b.destCtx.recipientAddress = "recipient-1"
  /\ outcome.result.destination = "recipient-1"

\* C32: a recovery never builds or executes an approve or a burn request and
\* emits no approve or burn event; it executes at most one mint.
C32_RecoveryOnlyMints ==
  call.kind = "recover" =>
    /\ n.approveBuild = 0 /\ n.approveExec = 0 /\ n.approveFailed = 0
    /\ n.burnBuild = 0 /\ n.burnExec = 0 /\ burnLog = <<>>
    /\ \A i \in 1..Len(events) : events[i].step \notin {"approve", "burn"}
    /\ n.mintBuild <= 1 /\ n.mintExec <= 1

C32_Witness ==
  /\ call.kind = "recover" /\ pc = "done" /\ outcome.orch = "returned"
  /\ n.fetchAttestation = 1 /\ n.mintExec = 1
  /\ events = << Ev("fetchAttestation", "pending", UNDEF),
                 Ev("fetchAttestation", "success", UNDEF),
                 Ev("mint", "pending", UNDEF),
                 Ev("mint", "success", MintHash) >>

\* the wallet capability of the destination chain's category is missing
DestWalletMissing ==
  createAdapter(call.p.destChainId, isSolanaChain(call.p.destChainId),
                call.p.evmProvider, call.p.solanaProvider) # NoError

NothingStarted ==
  /\ events = <<>>
  /\ n = Counts0
  /\ burnLog = <<>> /\ mintLog = <<>>

\* C33: in a transfer an approve or burn request is built only after both
\* adapters were created and the source address and the destination signer
\* address were resolved; when the wallet of the destination chain's category
\* is missing, the transfer throws with no request built and no progress
\* event emitted.
C33_NoWriteBeforeWalletsResolved ==
  (call.kind = "transfer" /\ pc # "idle") =>
    /\ (n.approveBuild > 0 \/ n.burnBuild > 0 \/ events # <<>>) =>
         /\ createAdaptersError(call.p) = NoError
         /\ b.sourceAddress = WalletAddress(isSolanaChain(call.p.sourceChainId))
         /\ b.destCtx # NoCtx
         /\ b.destCtx.address = DestSigner
    /\ DestWalletMissing =>
         /\ NothingStarted
         /\ pc \in {"createAdapters", "drain", "done"}
         /\ pc = "drain" =>
              pending.threw /\ pending.error \in {ErrSolanaNotConnected, ErrEvmNotConnected}
         /\ pc = "done" => outcome.orch = "threw"

C33_Witness ==
  /\ call.kind = "transfer" /\ pc = "done"
  /\ call.p.sourceChainId = "base-sepolia" /\ call.p.destChainId = "solana-devnet"
  /\ call.p.evmProvider /\ ~call.p.solanaProvider
  /\ outcome.orch = "threw" /\ outcome.error = ErrSolanaNotConnected
  /\ outcome.drained
  /\ NothingStarted

\* C34: the burns of one transfer call that took effect on the source chain
\* are at most one.
C34_AtMostOneBurnLands ==
  call.kind = "transfer" => Cardinality(n.burnLanded) <= 1

\* C35: when a second store action overlaps the call in flight, the session
\* the second action created is changed by that action's own updates only,
\* and isSubmitting is true while either of the two is in flight.
C35_SessionOwnedByItsCall ==
  /\ (current # NoSession /\ current.transactionId = "session-of-other") =>
       current = other.session
  /\ (CallInFlight \/ other.phase \notin {"none", "ended"}) => isSubmitting

\* C36: once reset() has set the session to null during a call, no step of
\* that call (progress event, success update, failure update) sets it again:
\* it stays null until a new transfer or recovery is started.
C36_ResetSessionStaysNull ==
  [][(current = NoSession /\ pc # "idle") => current' = NoSession]_vars

\* the session was reset during the call, which went on to a successful mint
C36_Witness ==
  /\ pc = "done" /\ call.kind = "transfer"
  /\ current = NoSession
  /\ outcome.orch = "returned"
  /\ events[Len(events)] = Ev("mint", "success", MintHash)
  /\ "MINTING" \notin { statusLog[i] : i \in 1..Len(statusLog) }

\* C37: in a transfer a COMPLETED session means that a burn success event
\* and a mint success event were emitted in the call and that sourceTxHash
\* and destTxHash are both set.
C37_CompletedMeansBurnedAndMinted ==
  (call.kind = "transfer" /\ pc # "idle" /\ HasSession
     /\ current.status = "COMPLETED") =>
    /\ BurnSucceeded
    /\ MintSucceeded
    /\ Truthy(current.sourceTxHash)
    /\ Truthy(current.destTxHash)

LastEventOf(step) == EventsOf(step)[Len(EventsOf(step))]

StepAgrees(st) ==
  /\ EventsOf(st.name) # <<>>
  /\ LastEventOf(st.name).state = st.state
  /\ LastEventOf(st.name).txHash = st.txHash

\* C38: in the result a successful transfer returns, each of the four steps
\* has the state and the txHash of the last progress event emitted for that
\* step.
C38_ResultAgreesWithEvents ==
  (call.kind = "transfer" /\ pc = "done" /\ outcome.orch = "returned") =>
    \A i \in 1..Len(outcome.result.steps) : StepAgrees(outcome.result.steps[i])

\* the events that end a step
TerminalEvents(step) ==
  SelectSeq(events, LAMBDA e : e.step = step /\ e.state \in {"success", "error"})

PendingEmitted(step) ==
  \E i \in 1..Len(events) : events[i] = Ev(step, "pending", UNDEF)

\* the orchestrator call has returned or thrown
OrchestratorEnded == pc \in {"drain", "done"}

=============================================================================
